---------------------------- MODULE Spec2Model ----------------------------
(***************************************************************************)
(* Model of the timetable engine of Task-Scheduler                         *)
(* (src/src/lib/timetable-scheduler.ts, class TimetableScheduler) and of   *)
(* the hook that drives it (src/src/hooks/index.ts, useScheduler).         *)
(*                                                                         *)
(* Time is counted in seconds of local wall-clock time since 00:00 of day  *)
(* 0.  A calendar date (a Date set to 00:00, a toDateString() value, a     *)
(* 'YYYY-MM-DD' string) is the day number.  Durations are minutes, as in   *)
(* the Task record.  An absent optional field (scheduledTime?, a null      *)
(* lastTaskEndTime) is Undefined.  The clock and every Date are local wall *)
(* clock; utcOffset is local time minus UTC, which toISOString() takes off.*)
(***************************************************************************)
EXTENDS Integers, Sequences, FiniteSets, TLC

\* ------------------------------------------------------------------ time
Minute == 60
HourLen == 3600
DayLen == 86400
Undefined == -1

\* new Date(y, m, d, h, min, s)
At(day, h, m, s) == day * DayLen + h * HourLen + m * Minute + s
\* d.setHours(0, 0, 0, 0) compared by getTime(), and d.toDateString()
DayOf(t) == t \div DayLen
GetHours(t) == (t % DayLen) \div HourLen
GetMinutes(t) == (t % HourLen) \div Minute
\* d.getDay(): day 0 is taken to be a Sunday
GetDay(day) == day % 7
\* x = new Date(date); x.setHours(h, m, 0, 0), date being a day at 00:00;
\* an hour of 24 rolls over to the next day, as Date does
SetHours(day, h, m) == day * DayLen + h * HourLen + m * Minute
\* Math.ceil(a / b) for a >= 0, b > 0
CeilDiv(a, b) == (a + b - 1) \div b

\* the 'YYYY-MM-DD' string built from getFullYear(), getMonth(), getDate():
\* the name of the local calendar day of t
LocalDateString(t) == DayOf(t)

\* t.toISOString().split('T')[0]: the name of the UTC calendar day of t, where
\* offset is local time minus UTC
ToISODateString(t, offset) == DayOf(t - offset)

\* array.includes(x)
Includes(array, x) == \E i \in 1..Len(array) : array[i] = x

\* const x = v; F(x): the value v is computed once and then used
Bind(v, F(_)) == CHOOSE r \in {F(x) : x \in {v}} : TRUE

\* -------------------------------------------------------- configuration
dayStartHour == 6
dayEndHour == 23
shortBreakDuration == 15
longBreakDuration == 30
maxContinuousWork == 90
\* the 15-minute slot of findAvailableSlot, in minutes
SlotMinutes == 15

\* ----------------------------------------------------------------- data
NoTask == [id |-> 0, duration |-> 0, deadline |-> 0, priority |-> "none",
           type |-> "none", completed |-> FALSE, scheduledTime |-> Undefined]

\* { ...t, scheduledTime: s }
WithScheduledTime(t, s) == [t EXCEPT !.scheduledTime = s]

\* a map that leaves every record as it is
UpdateScheduledTimeNever(ts, id, s) == ts

\* tasks.map(t => t.id === id ? { ...t, scheduledTime: s } : t)
UpdateScheduledTime(ts, id, s) ==
  [i \in 1..Len(ts) |-> IF ts[i].id = id THEN WithScheduledTime(ts[i], s) ELSE ts[i]]

\* a reading of task.completed that always finds it unset
IsCompletedNever(task) == FALSE

\* task.completed
IsCompleted(task) == task.completed

\* tasks.filter(task => !task.completed)
FilterIncomplete(ts) ==
  LET NotCompleted(t) == ~IsCompleted(t)
  IN SelectSeq(ts, NotCompleted)

\* an overlap test that sees only an interval lying inside the other
slotsOverlapInside(start1, end1, start2, end2) == start1 > start2 /\ end1 < end2

\* slotsOverlap(start1, end1, start2, end2)
slotsOverlap(start1, end1, start2, end2) == start1 < end2 /\ end1 > start2

\* Array.prototype.sort((a, b) => a.startTime - b.startTime), which is stable
RECURSIVE InsertByStart(_, _)
InsertByStart(b, s) ==
  IF s = <<>> THEN <<b>>
  ELSE IF b.startTime < Head(s).startTime THEN <<b>> \o s
       ELSE <<Head(s)>> \o InsertByStart(b, Tail(s))

RECURSIVE SortByStart(_)
SortByStart(s) ==
  IF s = <<>> THEN <<>>
  ELSE Bind(SortByStart(SubSeq(s, 1, Len(s) - 1)),
            LAMBDA sorted : InsertByStart(s[Len(s)], sorted))

\* ------------------------------------------------- calendar rule evaluator
\* a shouldIncludeBlock without the test of the exceptions list
shouldIncludeBlockNoExceptions(block, date) ==
  IF block.recurring = "none" THEN DayOf(block.startTime) = date
  ELSE IF block.recurring = "daily" THEN TRUE
  ELSE IF block.recurring = "weekly" THEN GetDay(date) \in block.days
  ELSE FALSE

\* a shouldIncludeBlock that takes a weekly block to apply on every weekday
shouldIncludeBlockAnyWeekday(block, date) ==
  IF block.recurring = "none" THEN DayOf(block.startTime) = date
  ELSE IF Includes(block.exceptions, LocalDateString(At(date, 0, 0, 0))) THEN FALSE
  ELSE IF block.recurring = "daily" THEN TRUE
  ELSE IF block.recurring = "weekly" THEN TRUE
  ELSE FALSE

shouldIncludeBlock(block, date) ==
  IF block.recurring = "none" THEN DayOf(block.startTime) = date
  ELSE IF Includes(block.exceptions, LocalDateString(At(date, 0, 0, 0))) THEN FALSE
  ELSE IF block.recurring = "daily" THEN TRUE
  ELSE IF block.recurring = "weekly" THEN GetDay(date) \in block.days
  ELSE FALSE

\* the TimeBlock addUnavailableBlocks pushes for one applicable definition
UnavailableTimeBlock(block, date) ==
  [id |-> <<"unavailable", block.id, 0, date>>,
   type |-> "unavailable",
   taskId |-> 0,
   task |-> NoTask,
   startTime |-> SetHours(date, GetHours(block.startTime), GetMinutes(block.startTime)),
   endTime |-> SetHours(date, GetHours(block.endTime), GetMinutes(block.endTime)),
   title |-> "unavailable",
   isFixed |-> TRUE]

addUnavailableBlocks(blocks, date) ==
  LET Applies(b) == shouldIncludeBlock(b, date)
      sel == SelectSeq(blocks, Applies)
  IN [i \in 1..Len(sel) |-> UnavailableTimeBlock(sel[i], date)]

\* ------------------------------------------------------ availability builder
\* a test that also keeps a placement of today the clock has passed
KeepsPlacementStale(task, date, now) ==
  /\ ~IsCompleted(task)
  /\ task.scheduledTime # Undefined
  /\ DayOf(task.scheduledTime) = date

\* the test of addExistingScheduledTasks: the task is kept where it is
KeepsPlacement(task, date, now) ==
  /\ ~IsCompleted(task)
  /\ task.scheduledTime # Undefined
  /\ DayOf(task.scheduledTime) = date
  /\ ~(date = DayOf(now) /\ task.scheduledTime <= now /\ ~IsCompleted(task))

ScheduledTimeBlock(task, date) ==
  [id |-> <<"scheduled", task.id, 0, date>>,
   type |-> "task",
   taskId |-> task.id,
   task |-> task,
   startTime |-> task.scheduledTime,
   endTime |-> task.scheduledTime + task.duration * Minute,
   title |-> "task",
   isFixed |-> FALSE]

addExistingScheduledTasks(ts, date, now) ==
  LET Keep(t) == KeepsPlacement(t, date, now)
      sel == SelectSeq(ts, Keep)
  IN [i \in 1..Len(sel) |-> ScheduledTimeBlock(sel[i], date)]

\* --------------------------------------------------- task eligibility filter
\* a filter that lacks the carry-forward of tasks scheduled before today
NeedsReschedulingNoCarry(task, targetDate, now) ==
  LET isToday == targetDate = DayOf(now)
      todayOnly == DayOf(now)
      deadlineDateOnly == DayOf(task.deadline)
      isOverdue == deadlineDateOnly < todayOnly
  IN IF IsCompleted(task) THEN FALSE
     ELSE IF targetDate < todayOnly THEN FALSE
     ELSE IF task.scheduledTime # Undefined
          THEN IF DayOf(task.scheduledTime) = targetDate
               THEN IF isToday /\ task.scheduledTime <= now /\ ~IsCompleted(task)
                    THEN TRUE
                    ELSE FALSE
               ELSE FALSE
     ELSE IF isOverdue /\ targetDate >= todayOnly THEN TRUE
     ELSE deadlineDateOnly >= targetDate

\* a filter that lacks the rule for overdue tasks without scheduledTime
NeedsReschedulingNoOverdue(task, targetDate, now) ==
  LET isToday == targetDate = DayOf(now)
      todayOnly == DayOf(now)
      deadlineDateOnly == DayOf(task.deadline)
      isOverdue == deadlineDateOnly < todayOnly
  IN IF IsCompleted(task) THEN FALSE
     ELSE IF targetDate < todayOnly THEN FALSE
     ELSE IF task.scheduledTime # Undefined
          THEN IF DayOf(task.scheduledTime) = targetDate
               THEN IF isToday /\ task.scheduledTime <= now /\ ~IsCompleted(task)
                    THEN TRUE
                    ELSE FALSE
               ELSE IF DayOf(task.scheduledTime) < todayOnly /\ ~IsCompleted(task)
                    THEN TRUE
                    ELSE FALSE
     ELSE deadlineDateOnly >= targetDate

NeedsRescheduling(task, targetDate, now) ==
  LET isToday == targetDate = DayOf(now)
      todayOnly == DayOf(now)
      deadlineDateOnly == DayOf(task.deadline)
      isOverdue == deadlineDateOnly < todayOnly
  IN IF IsCompleted(task) THEN FALSE
     ELSE IF targetDate < todayOnly THEN FALSE
     ELSE IF task.scheduledTime # Undefined
          THEN IF DayOf(task.scheduledTime) = targetDate
               THEN IF isToday /\ task.scheduledTime <= now /\ ~IsCompleted(task)
                    THEN TRUE
                    ELSE FALSE
               ELSE IF DayOf(task.scheduledTime) < todayOnly /\ ~IsCompleted(task)
                    THEN TRUE
                    ELSE FALSE
     ELSE IF isOverdue /\ targetDate >= todayOnly THEN TRUE
     ELSE deadlineDateOnly >= targetDate

getTasksForRescheduling(ts, targetDate, now) ==
  LET Pick(t) == NeedsRescheduling(t, targetDate, now)
  IN SelectSeq(ts, Pick)

\* ------------------------------------------------------------- prioritizer
getScore(task, now) ==
  LET secondsToDeadline == task.deadline - now
      urgency == IF secondsToDeadline <= 24 * HourLen THEN 80
                 ELSE IF secondsToDeadline <= 48 * HourLen THEN 60
                 ELSE IF secondsToDeadline <= 168 * HourLen THEN 40
                 ELSE 15
      priorityScore == CASE task.priority = "high" -> 40
                         [] task.priority = "medium" -> 25
                         [] OTHER -> 10
      typeScore == CASE task.type = "work" -> 15
                     [] task.type = "study" -> 12
                     [] OTHER -> 8
  IN urgency + priorityScore + typeScore
       - (IF task.duration > 120 THEN 10 ELSE 0)
       - (IF task.duration > 180 THEN 15 ELSE 0)

\* [...tasks].sort((a, b) => getScore(b) - getScore(a)): stable, descending
RECURSIVE InsertByScore(_, _, _)
InsertByScore(t, s, now) ==
  IF s = <<>> THEN <<t>>
  ELSE IF getScore(t, now) > getScore(Head(s), now) THEN <<t>> \o s
       ELSE <<Head(s)>> \o InsertByScore(t, Tail(s), now)

RECURSIVE prioritizeTasks(_, _)
prioritizeTasks(ts, now) ==
  IF ts = <<>> THEN <<>>
  ELSE Bind(prioritizeTasks(SubSeq(ts, 1, Len(ts) - 1), now),
            LAMBDA sorted : InsertByScore(ts[Len(ts)], sorted, now))

\* ---------------------------------------------------------- slot allocator
NoSlot == [found |-> FALSE, start |-> Undefined, end |-> Undefined]

\* dayEnd of findAvailableSlot
DayEndOf(date) == SetHours(date, dayEndHour, 0)

\* dayStart of findAvailableSlot once the "if today" branch has run
WindowStart(date, now) ==
  LET dayStart == SetHours(date, dayStartHour, 0)
      isToday == date = DayOf(now)
      nextSlot == now + 15 * Minute
      minutes == GetMinutes(nextSlot)
      roundedMinutes == CeilDiv(minutes, 15) * 15
  IN IF isToday /\ now > dayStart
     THEN IF roundedMinutes >= 60
          THEN SetHours(date, GetHours(nextSlot) + 1, 0)
          ELSE SetHours(date, GetHours(nextSlot), roundedMinutes)
     ELSE dayStart

\* slots.length: the while loop makes one pass per quarter hour from the
\* window start up to (not including) latestTaskStart, and a pass pushes a slot
\* when the slot ends within working hours
SlotCount(duration, date, now) ==
  LET dayEnd == DayEndOf(date)
      latestTaskStart == dayEnd - duration * Minute
      first == WindowStart(date, now)
      passCount == IF first < latestTaskStart
                   THEN CeilDiv(latestTaskStart - first, SlotMinutes * Minute)
                   ELSE 0
      fitting == (dayEnd - first) \div (SlotMinutes * Minute)
  IN IF passCount <= fitting THEN passCount
     ELSE IF fitting > 0 THEN fitting ELSE 0

\* slots[i].start and slots[i].end, i counted from 0 as in the source
SlotStart(i, date, now) == WindowStart(date, now) + i * SlotMinutes * Minute
SlotEnd(i, date, now) == SlotStart(i, date, now) + SlotMinutes * Minute

\* slot.available once every block of the timetable has marked the slots
SlotAvailable(timetable, i, date, now) ==
  \A n \in 1..Len(timetable) :
    ~slotsOverlap(SlotStart(i, date, now), SlotEnd(i, date, now),
                  timetable[n].startTime, timetable[n].endTime)

\* the break test of findAvailableSlot: TRUE when the proposed start is allowed
BreakRuleAllows(proposedStart, lastTaskEndTime, continuousWorkTime) ==
  IF lastTaskEndTime # Undefined /\ continuousWorkTime # 0
       /\ continuousWorkTime >= maxContinuousWork
  THEN LET timeSinceLastTask == proposedStart - lastTaskEndTime
           minBreakTime == IF continuousWorkTime >= 120 THEN longBreakDuration
                           ELSE shortBreakDuration
       IN ~(timeSinceLastTask < minBreakTime * Minute)
  ELSE TRUE

\* the body of the for loop of findAvailableSlot at index i: TRUE when it returns
SlotFits(timetable, duration, date, now, lastTaskEndTime, continuousWorkTime, i) ==
  LET requiredSlots == CeilDiv(duration, SlotMinutes)
      proposedStart == SlotStart(i, date, now)
      actualEnd == proposedStart + duration * Minute
  IN /\ \A k \in i..(i + requiredSlots - 1) : SlotAvailable(timetable, k, date, now)
     /\ ~(actualEnd > DayEndOf(date))
     /\ \A n \in 1..Len(timetable) :
           ~slotsOverlap(proposedStart, actualEnd,
                         timetable[n].startTime, timetable[n].endTime)
     /\ BreakRuleAllows(proposedStart, lastTaskEndTime, continuousWorkTime)

\* the for loop of findAvailableSlot from index i on: the first index that
\* returns, or -1
RECURSIVE FirstFit(_, _, _, _, _, _, _, _)
FirstFit(timetable, duration, date, now, lastTaskEndTime, continuousWorkTime, i, lastIndex) ==
  IF i > lastIndex THEN -1
  ELSE IF SlotFits(timetable, duration, date, now, lastTaskEndTime, continuousWorkTime, i)
       THEN i
       ELSE FirstFit(timetable, duration, date, now, lastTaskEndTime,
                     continuousWorkTime, i + 1, lastIndex)

findAvailableSlot(timetable, duration, date, now, lastTaskEndTime, continuousWorkTime) ==
  IF date < DayOf(now) THEN NoSlot
  ELSE
    LET requiredSlots == CeilDiv(duration, SlotMinutes)
        lastIndex == SlotCount(duration, date, now) - requiredSlots
    IN Bind(FirstFit(timetable, duration, date, now, lastTaskEndTime,
                     continuousWorkTime, 0, lastIndex),
            LAMBDA i : IF i < 0 THEN NoSlot
                       ELSE [found |-> TRUE, start |-> SlotStart(i, date, now),
                             end |-> SlotStart(i, date, now) + duration * Minute])

\* the TimeBlock placeTasks pushes for a task and its slot
PlacedTimeBlock(task, slot, date) ==
  [id |-> <<"task", task.id, 0, date>>,
   type |-> "task",
   taskId |-> task.id,
   task |-> WithScheduledTime(task, slot.start),
   startTime |-> slot.start,
   endTime |-> slot.end,
   title |-> "task",
   isFixed |-> FALSE]

\* continuousWorkTime after a placement that never resets it
NextContinuousWorkNoReset(continuousWorkTime, duration) ==
  continuousWorkTime + duration

\* continuousWorkTime after a placement
NextContinuousWork(continuousWorkTime, duration) ==
  IF continuousWorkTime + duration > maxContinuousWork THEN 0
  ELSE continuousWorkTime + duration

\* a pass that writes the new block over the last block of the timetable
PlaceOneOverwriting(task, date, now, st) ==
  Bind(findAvailableSlot(st.timetable, task.duration, date, now,
                         st.lastTaskEndTime, st.continuousWorkTime),
       LAMBDA slot :
         LET pass == [task |-> task, timetable |-> st.timetable,
                      lastTaskEndTime |-> st.lastTaskEndTime,
                      continuousWorkTime |-> st.continuousWorkTime, slot |-> slot]
         IN IF slot.found
            THEN [timetable |-> Append(IF st.timetable = <<>> THEN <<>>
                                       ELSE SubSeq(st.timetable, 1, Len(st.timetable) - 1),
                                       PlacedTimeBlock(task, slot, date)),
                  lastTaskEndTime |-> slot.end,
                  continuousWorkTime |->
                    NextContinuousWork(st.continuousWorkTime, task.duration),
                  tasks |-> UpdateScheduledTime(st.tasks, task.id, slot.start),
                  passes |-> Append(st.passes, pass)]
            ELSE [st EXCEPT !.passes = Append(st.passes, pass)])

\* one pass of the loop of placeTasks, for task. st carries the loop's
\* variables (timetable, lastTaskEndTime, continuousWorkTime), this.tasks, and
\* the record of each pass: the task, what the slot search was given, its result.
PlaceOne(task, date, now, st) ==
  Bind(findAvailableSlot(st.timetable, task.duration, date, now,
                         st.lastTaskEndTime, st.continuousWorkTime),
       LAMBDA slot :
         LET pass == [task |-> task, timetable |-> st.timetable,
                      lastTaskEndTime |-> st.lastTaskEndTime,
                      continuousWorkTime |-> st.continuousWorkTime, slot |-> slot]
         IN IF slot.found
            THEN [timetable |-> Append(st.timetable, PlacedTimeBlock(task, slot, date)),
                  lastTaskEndTime |-> slot.end,
                  continuousWorkTime |->
                    NextContinuousWork(st.continuousWorkTime, task.duration),
                  tasks |-> UpdateScheduledTime(st.tasks, task.id, slot.start),
                  passes |-> Append(st.passes, pass)]
            ELSE [st EXCEPT !.passes = Append(st.passes, pass)])

\* the loop of placeTasks over the first n tasks of the sorted list
RECURSIVE PlaceUpTo(_, _, _, _, _)
PlaceUpTo(n, sorted, date, now, st0) ==
  IF n = 0 THEN st0
  ELSE Bind(PlaceUpTo(n - 1, sorted, date, now, st0),
            LAMBDA st : PlaceOne(sorted[n], date, now, st))

placeTasks(timetable, sorted, date, now, ts) ==
  PlaceUpTo(Len(sorted), sorted, date, now,
            [timetable |-> timetable, lastTaskEndTime |-> Undefined,
             continuousWorkTime |-> 0, tasks |-> ts, passes |-> <<>>])

\* ----------------------------------------------------------- break inserter
IsIntensive(task) == task.priority = "high" \/ task.duration >= 90

\* a pass that lacks the rest break between two intensive tasks
BreakPassNoRest(currentTask, nextTask, workBefore) ==
  LET taskDuration == currentTask.task.duration
      work == workBefore + taskDuration
      timeBetween == nextTask.startTime - currentTask.endTime
      needsShortBreak == taskDuration >= 45 /\ timeBetween >= shortBreakDuration * Minute
      needsLongBreak == work >= maxContinuousWork /\ timeBetween >= longBreakDuration * Minute
      needsRestBreak == FALSE
      breakDuration == IF needsLongBreak THEN longBreakDuration ELSE shortBreakDuration
      breakEnd == currentTask.endTime + breakDuration * Minute
      pushes == /\ (needsLongBreak \/ needsRestBreak \/ needsShortBreak)
                /\ timeBetween >= shortBreakDuration * Minute
                /\ breakEnd <= nextTask.startTime
      afterBreak == IF pushes /\ needsLongBreak THEN 0 ELSE work
  IN [breaks |-> IF pushes
                 THEN << [id |-> <<"break", currentTask.taskId, nextTask.taskId,
                                   DayOf(currentTask.endTime)>>,
                          type |-> "break",
                          taskId |-> 0,
                          task |-> NoTask,
                          startTime |-> currentTask.endTime,
                          endTime |-> breakEnd,
                          title |-> IF needsLongBreak THEN "Extended Break"
                                    ELSE IF needsRestBreak THEN "Rest Break"
                                    ELSE "Short Break",
                          isFixed |-> FALSE] >>
                 ELSE <<>>,
      work |-> IF timeBetween >= 60 * Minute THEN 0 ELSE afterBreak]

\* a pass that measures the break from the start of the current task
BreakPassFromStart(currentTask, nextTask, workBefore) ==
  LET taskDuration == currentTask.task.duration
      work == workBefore + taskDuration
      timeBetween == nextTask.startTime - currentTask.endTime
      needsShortBreak == taskDuration >= 45 /\ timeBetween >= shortBreakDuration * Minute
      needsLongBreak == work >= maxContinuousWork /\ timeBetween >= longBreakDuration * Minute
      needsRestBreak == IsIntensive(currentTask.task) /\ IsIntensive(nextTask.task)
                          /\ timeBetween >= shortBreakDuration * Minute
      breakDuration == IF needsLongBreak THEN longBreakDuration ELSE shortBreakDuration
      breakEnd == currentTask.startTime + breakDuration * Minute
      pushes == /\ (needsLongBreak \/ needsRestBreak \/ needsShortBreak)
                /\ timeBetween >= shortBreakDuration * Minute
                /\ breakEnd <= nextTask.startTime
      afterBreak == IF pushes /\ needsLongBreak THEN 0 ELSE work
  IN [breaks |-> IF pushes
                 THEN << [id |-> <<"break", currentTask.taskId, nextTask.taskId,
                                   DayOf(currentTask.endTime)>>,
                          type |-> "break",
                          taskId |-> 0,
                          task |-> NoTask,
                          startTime |-> currentTask.startTime,
                          endTime |-> breakEnd,
                          title |-> IF needsLongBreak THEN "Extended Break"
                                    ELSE IF needsRestBreak THEN "Rest Break"
                                    ELSE "Short Break",
                          isFixed |-> FALSE] >>
                 ELSE <<>>,
      work |-> IF timeBetween >= 60 * Minute THEN 0 ELSE afterBreak]

\* a pass that keeps the accumulated work across a gap of an hour or more
BreakPassNoGapReset(currentTask, nextTask, workBefore) ==
  LET taskDuration == currentTask.task.duration
      work == workBefore + taskDuration
      timeBetween == nextTask.startTime - currentTask.endTime
      needsShortBreak == taskDuration >= 45 /\ timeBetween >= shortBreakDuration * Minute
      needsLongBreak == work >= maxContinuousWork /\ timeBetween >= longBreakDuration * Minute
      needsRestBreak == IsIntensive(currentTask.task) /\ IsIntensive(nextTask.task)
                          /\ timeBetween >= shortBreakDuration * Minute
      breakDuration == IF needsLongBreak THEN longBreakDuration ELSE shortBreakDuration
      breakEnd == currentTask.endTime + breakDuration * Minute
      pushes == /\ (needsLongBreak \/ needsRestBreak \/ needsShortBreak)
                /\ timeBetween >= shortBreakDuration * Minute
                /\ breakEnd <= nextTask.startTime
      afterBreak == IF pushes /\ needsLongBreak THEN 0 ELSE work
  IN [breaks |-> IF pushes
                 THEN << [id |-> <<"break", currentTask.taskId, nextTask.taskId,
                                   DayOf(currentTask.endTime)>>,
                          type |-> "break",
                          taskId |-> 0,
                          task |-> NoTask,
                          startTime |-> currentTask.endTime,
                          endTime |-> breakEnd,
                          title |-> IF needsLongBreak THEN "Extended Break"
                                    ELSE IF needsRestBreak THEN "Rest Break"
                                    ELSE "Short Break",
                          isFixed |-> FALSE] >>
                 ELSE <<>>,
      work |-> afterBreak]

\* one pass of the loop of insertIntelligentBreaks over the pair (i, i + 1):
\* the break it pushes (or none) and continuousWorkTime after the pass
BreakPass(currentTask, nextTask, workBefore) ==
  LET taskDuration == currentTask.task.duration
      work == workBefore + taskDuration
      timeBetween == nextTask.startTime - currentTask.endTime
      needsShortBreak == taskDuration >= 45 /\ timeBetween >= shortBreakDuration * Minute
      needsLongBreak == work >= maxContinuousWork /\ timeBetween >= longBreakDuration * Minute
      needsRestBreak == IsIntensive(currentTask.task) /\ IsIntensive(nextTask.task)
                          /\ timeBetween >= shortBreakDuration * Minute
      breakDuration == IF needsLongBreak THEN longBreakDuration ELSE shortBreakDuration
      breakEnd == currentTask.endTime + breakDuration * Minute
      pushes == /\ (needsLongBreak \/ needsRestBreak \/ needsShortBreak)
                /\ timeBetween >= shortBreakDuration * Minute
                /\ breakEnd <= nextTask.startTime
      afterBreak == IF pushes /\ needsLongBreak THEN 0 ELSE work
  IN [breaks |-> IF pushes
                 THEN << [id |-> <<"break", currentTask.taskId, nextTask.taskId,
                                   DayOf(currentTask.endTime)>>,
                          type |-> "break",
                          taskId |-> 0,
                          task |-> NoTask,
                          startTime |-> currentTask.endTime,
                          endTime |-> breakEnd,
                          title |-> IF needsLongBreak THEN "Extended Break"
                                    ELSE IF needsRestBreak THEN "Rest Break"
                                    ELSE "Short Break",
                          isFixed |-> FALSE] >>
                 ELSE <<>>,
      work |-> IF timeBetween >= 60 * Minute THEN 0 ELSE afterBreak]

\* the loop of insertIntelligentBreaks over the first n pairs: breaksToAdd and
\* continuousWorkTime after them
RECURSIVE BreaksUpTo(_, _)
BreaksUpTo(n, taskBlocks) ==
  IF n = 0 THEN [breaks |-> <<>>, work |-> 0]
  ELSE Bind(BreaksUpTo(n - 1, taskBlocks),
            LAMBDA acc :
              Bind(BreakPass(taskBlocks[n], taskBlocks[n + 1], acc.work),
                   LAMBDA p : [breaks |-> acc.breaks \o p.breaks, work |-> p.work]))

insertIntelligentBreaks(timetable) ==
  LET IsTask(b) == b.type = "task"
  IN Bind(SortByStart(SelectSeq(timetable, IsTask)),
          LAMBDA taskBlocks :
            IF Len(taskBlocks) < 2 THEN timetable
            ELSE timetable \o BreaksUpTo(Len(taskBlocks) - 1, taskBlocks).breaks)

\* ------------------------------------------------------- generateTimetable
\* generateTimetable from "Add unavailable blocks" on, the past-date test
\* passed: the returned sequence, this.tasks afterwards, the passes of placeTasks
GenerateFrom(ts, blocks, date, now) ==
  LET NotDone(b) == ~(b.type = "task" /\ IsCompleted(b.task))
  IN Bind(prioritizeTasks(getTasksForRescheduling(ts, date, now), now),
       LAMBDA sortedTasks :
         Bind(placeTasks(addUnavailableBlocks(blocks, date)
                           \o addExistingScheduledTasks(ts, date, now),
                         sortedTasks, date, now, ts),
           LAMBDA placed :
             [out |-> SortByStart(SelectSeq(insertIntelligentBreaks(placed.timetable),
                                            NotDone)),
              tasks |-> placed.tasks,
              passes |-> placed.passes]))

\* a generateTimetable that lacks "if (targetDate < today) return []"
generateTimetableNoPastGuard(ts, blocks, date, now) == GenerateFrom(ts, blocks, date, now)

\* the result of generateTimetable(date) on a scheduler holding ts and blocks
generateTimetable(ts, blocks, date, now) ==
  IF date < DayOf(now)
  THEN [out |-> <<>>, tasks |-> ts, passes |-> <<>>]
  ELSE GenerateFrom(ts, blocks, date, now)

\* -------------------------------------------------------------- rescheduler
\* findIndex(block => block.taskId === taskId): 0 when there is none
FindTaskIndex(tt, taskId) ==
  LET hits == {i \in 1..Len(tt) : tt[i].taskId = taskId}
  IN IF hits = {} THEN 0 ELSE CHOOSE x \in hits : \A y \in hits : x <= y

\* a conflict test that looks at the other task blocks only
conflictExistsAmongTasks(tt, taskIndex, newStartTime, newEndTime) ==
  \E index \in 1..Len(tt) :
    /\ index # taskIndex
    /\ tt[index].type = "task"
    /\ slotsOverlap(newStartTime, newEndTime, tt[index].startTime, tt[index].endTime)

\* currentTimetable.some((block, index) => index !== taskIndex && slotsOverlap(...))
conflictExists(tt, taskIndex, newStartTime, newEndTime) ==
  \E index \in 1..Len(tt) :
    /\ index # taskIndex
    /\ slotsOverlap(newStartTime, newEndTime, tt[index].startTime, tt[index].endTime)

\* a rescheduleTask that sorts the timetable it returns by start time
rescheduleTaskSorted(ts, taskId, newStartTime, currentTimetable) ==
  LET taskIndex == FindTaskIndex(currentTimetable, taskId)
      taskBlock == currentTimetable[taskIndex]
      newEndTime == newStartTime + taskBlock.task.duration * Minute
  IN IF taskIndex = 0 THEN [out |-> currentTimetable, tasks |-> ts]
     ELSE IF taskBlock.task = NoTask THEN [out |-> currentTimetable, tasks |-> ts]
     ELSE IF ~conflictExists(currentTimetable, taskIndex, newStartTime, newEndTime)
          THEN [out |-> SortByStart([currentTimetable EXCEPT ![taskIndex] =
                           [taskBlock EXCEPT !.startTime = newStartTime,
                                             !.endTime = newEndTime,
                                             !.task = WithScheduledTime(taskBlock.task, newStartTime)]]),
                tasks |-> UpdateScheduledTime(ts, taskId, newStartTime)]
          ELSE [out |-> currentTimetable, tasks |-> ts]

\* rescheduleTask(taskId, newStartTime, timetable) on a scheduler holding ts:
\* the returned timetable and this.tasks afterwards
rescheduleTask(ts, taskId, newStartTime, currentTimetable) ==
  LET taskIndex == FindTaskIndex(currentTimetable, taskId)
      taskBlock == currentTimetable[taskIndex]
      newEndTime == newStartTime + taskBlock.task.duration * Minute
  IN IF taskIndex = 0 THEN [out |-> currentTimetable, tasks |-> ts]
     ELSE IF taskBlock.task = NoTask THEN [out |-> currentTimetable, tasks |-> ts]
     ELSE IF ~conflictExists(currentTimetable, taskIndex, newStartTime, newEndTime)
          THEN [out |-> [currentTimetable EXCEPT ![taskIndex] =
                           [taskBlock EXCEPT !.startTime = newStartTime,
                                             !.endTime = newEndTime,
                                             !.task = WithScheduledTime(taskBlock.task, newStartTime)]],
                tasks |-> UpdateScheduledTime(ts, taskId, newStartTime)]
          ELSE [out |-> currentTimetable, tasks |-> ts]

\* ------------------------------------------------ recurring exception manager
\* this.unavailableBlocks.find(b => b.id === blockId): 0 when there is none
FindBlockIndex(blocks, blockId) ==
  LET hits == {i \in 1..Len(blocks) : blocks[i].id = blockId}
  IN IF hits = {} THEN 0 ELSE CHOOSE x \in hits : \A y \in hits : x <= y

\* an addExceptionToRecurringBlock that pushes without the includes test
addExceptionToRecurringBlockAlways(blocks, blockId, exceptionDate, offset) ==
  LET index == FindBlockIndex(blocks, blockId)
      dateString == ToISODateString(exceptionDate, offset)
  IN IF index = 0 THEN [blocks |-> blocks, ok |-> FALSE]
     ELSE IF blocks[index].recurring = "none" THEN [blocks |-> blocks, ok |-> FALSE]
     ELSE [blocks |-> [blocks EXCEPT ![index].exceptions = Append(@, dateString)],
           ok |-> TRUE]

\* addExceptionToRecurringBlock(blockId, exceptionDate) on a scheduler holding
\* blocks: the blocks afterwards (the block records are changed in place) and
\* the value returned
addExceptionToRecurringBlock(blocks, blockId, exceptionDate, offset) ==
  LET index == FindBlockIndex(blocks, blockId)
      dateString == ToISODateString(exceptionDate, offset)
  IN IF index = 0 THEN [blocks |-> blocks, ok |-> FALSE]
     ELSE IF blocks[index].recurring = "none" THEN [blocks |-> blocks, ok |-> FALSE]
     ELSE IF ~Includes(blocks[index].exceptions, dateString)
          THEN [blocks |-> [blocks EXCEPT ![index].exceptions = Append(@, dateString)],
                ok |-> TRUE]
          ELSE [blocks |-> blocks, ok |-> TRUE]

\* ------------------------------------------- addUnavailableBlockAndReschedule
\* the elements of a set of numbers in ascending order
RECURSIVE AscendingSeq(_)
AscendingSeq(S) ==
  IF S = {} THEN <<>>
  ELSE LET least == CHOOSE x \in S : \A y \in S : x <= y
       IN <<least>> \o AscendingSeq(S \ {least})

\* datesToCheck, in the order of the pushes: the target date, then the dates of
\* the loops that are not before today; a date can occur more than once
DatesToCheck(block, targetDate, today) ==
  LET NotPast(d) == d >= today
      days == AscendingSeq(block.days)
      n == Len(days)
  IN <<targetDate>> \o
     (IF block.recurring = "daily"
      THEN SelectSeq([i \in 1..7 |-> targetDate + i], NotPast)
      ELSE IF block.recurring = "weekly"
           THEN SelectSeq([k \in 1..(4 * n) |->
                             targetDate + ((k - 1) \div n) * 7
                               + ((days[((k - 1) % n) + 1] - GetDay(targetDate) + 7) % 7)],
                          NotPast)
           ELSE <<>>)

\* the test of the two forEach bodies for one task: its scheduledTime is
\* cleared. For a recurring block, date is the date of datesToCheck and the
\* block's hours and minutes are set on it; for a one-time block, date is the
\* day of blockStart and the block's own times are compared
ConflictsWith(task, block, date) ==
  /\ task.scheduledTime # Undefined
  /\ ~IsCompleted(task)
  /\ DayOf(task.scheduledTime) = date
  /\ LET taskEnd == task.scheduledTime + task.duration * Minute
         blockStart == IF block.recurring # "none"
                       THEN SetHours(date, GetHours(block.startTime),
                                     GetMinutes(block.startTime))
                       ELSE block.startTime
         blockEnd == IF block.recurring # "none"
                     THEN SetHours(date, GetHours(block.endTime),
                                   GetMinutes(block.endTime))
                     ELSE block.endTime
     IN task.scheduledTime < blockEnd /\ taskEnd > blockStart

\* this.tasks.forEach for one date: the records and rescheduledCount afterwards
ClearOnDate(st, block, date) ==
  [tasks |-> [i \in 1..Len(st.tasks) |->
                IF ConflictsWith(st.tasks[i], block, date)
                THEN WithScheduledTime(st.tasks[i], Undefined) ELSE st.tasks[i]],
   count |-> st.count
               + Cardinality({i \in 1..Len(st.tasks) :
                                ConflictsWith(st.tasks[i], block, date)})]

\* datesToCheck.forEach over the first n dates
RECURSIVE ClearOnDates(_, _, _, _)
ClearOnDates(ts, block, dates, n) ==
  IF n = 0 THEN [tasks |-> ts, count |-> 0]
  ELSE Bind(ClearOnDates(ts, block, dates, n - 1),
            LAMBDA st : ClearOnDate(st, block, dates[n]))

\* a conflict pass that clears nothing
clearConflictsNever(ts, block, targetDate, today) == [tasks |-> ts, count |-> 0]

\* a conflict pass that counts a task on every date of datesToCheck where the
\* record it started from conflicts
clearConflictsPerDate(ts, block, targetDate, today) ==
  LET dates == IF block.recurring # "none"
               THEN DatesToCheck(block, targetDate, today)
               ELSE <<DayOf(block.startTime)>>
      Hits(k) == {i \in 1..Len(ts) : ConflictsWith(ts[i], block, dates[k])}
      RECURSIVE Total(_)
      Total(k) == IF k = 0 THEN 0 ELSE Total(k - 1) + Cardinality(Hits(k))
  IN [tasks |-> ClearOnDates(ts, block, dates, Len(dates)).tasks,
      count |-> Total(Len(dates))]

\* "Clear scheduled times for conflicting tasks": the task records afterwards
\* (they are changed in place) and rescheduledCount
clearConflicts(ts, block, targetDate, today) ==
  IF block.recurring # "none"
  THEN Bind(DatesToCheck(block, targetDate, today),
            LAMBDA dates : ClearOnDates(ts, block, dates, Len(dates)))
  ELSE ClearOnDate([tasks |-> ts, count |-> 0], block, DayOf(block.startTime))

\* addUnavailableBlockAndReschedule(block, targetDate) on a scheduler holding
\* ts and blocks: the task records after the conflict pass, and the timetable,
\* this.tasks and the allocator passes of the regeneration; the pushed block is
\* popped again, so this.unavailableBlocks ends as blocks
addUnavailableBlockAndReschedule(ts, blocks, block, targetDate, now) ==
  Bind(clearConflicts(ts, block, targetDate, DayOf(now)),
       LAMBDA c :
         Bind(generateTimetable(c.tasks, Append(blocks, block), targetDate, now),
              LAMBDA g : [cleared |-> c.tasks,
                          updatedTimetable |-> g.out,
                          rescheduledTasksCount |-> c.count,
                          tasks |-> g.tasks,
                          passes |-> g.passes]))

\* ------------------------------------------------------------------ bounds
\* length of the caller's task list and of its list of unavailable blocks
MaxTasks == 2
MaxBlocks == 1
\* engine calls in one behaviour
MaxOps == 2

\* ------------------------------------------------------------------ inputs
Today == 1
\* the target dates: yesterday, today, tomorrow
Dates == {Today - 1, Today, Today + 1}

Task(d, dl, p, sch, done) ==
  [id |-> 0, duration |-> d, deadline |-> dl, priority |-> p, type |-> "work",
   completed |-> done, scheduledTime |-> sch]

Block(s, e, r, days) ==
  [id |-> 0, startTime |-> s, endTime |-> e, recurring |-> r, days |-> days,
   exceptions |-> <<>>]

\* The inputs of the behaviours of several calls.
\* The clock: before working hours, and mid-morning with a seconds part.
CoreNows == {At(Today, 5, 50, 0), At(Today, 10, 0, 30)}

CoreTaskPool ==
  << Task(90, At(Today + 1, 12, 0, 0), "high", Undefined, FALSE),
     Task(30, At(Today - 1, 12, 0, 0), "low", Undefined, FALSE),
     Task(45, At(Today + 1, 12, 0, 0), "low", At(Today, 9, 0, 0), FALSE),
     Task(30, At(Today + 1, 12, 0, 0), "high", At(Today + 1, 14, 0, 0), TRUE) >>

CoreBlockPool ==
  << Block(At(Today, 8, 0, 0), At(Today, 23, 0, 0), "daily", {}),
     Block(At(Today, 10, 0, 0), At(Today, 11, 0, 0), "none", {}) >>

\* the start times a caller asks rescheduleTask for: mid-morning today, early
\* tomorrow, and tomorrow before the working hours
NewStarts == {At(Today, 10, 30, 0), At(Today + 1, 7, 30, 0), At(Today + 1, 5, 0, 0)}

\* The inputs of the behaviours of one call.
\* The clock: before working hours, on the hour with a seconds part, off the
\* quarter hour, late in the evening, and in the last quarter hour of the day.
NowPool ==
  {At(Today, 5, 50, 0), At(Today, 10, 0, 30), At(Today, 10, 7, 0),
   At(Today, 21, 40, 0), At(Today, 23, 50, 0)}

TaskPool ==
  CoreTaskPool \o
  << Task(60, At(Today + 1, 12, 0, 0), "low", Undefined, FALSE),
     Task(60, At(Today + 1, 12, 0, 0), "high", Undefined, FALSE),
     Task(15, At(Today - 1, 12, 0, 0), "low", Undefined, FALSE),
     Task(540, At(Today - 1, 12, 0, 0), "low", Undefined, FALSE),
     Task(60, At(Today + 1, 12, 0, 0), "high", At(Today + 1, 10, 0, 0), FALSE),
     Task(60, At(Today + 1, 12, 0, 0), "low", At(Today - 1, 9, 0, 0), FALSE),
     Task(60, At(Today + 1, 12, 0, 0), "low", At(Today, 0, 15, 0), FALSE) >>

BlockPool ==
  CoreBlockPool \o
  << Block(At(Today + 1, 7, 0, 0), At(Today + 1, 8, 0, 0), "none", {}),
     Block(At(Today, 7, 0, 0), At(Today, 23, 0, 0), "daily", {}),
     Block(At(Today, 6, 0, 0), At(Today, 22, 0, 0), "weekly", {GetDay(Today), GetDay(Today + 1)}),
     Block(At(Today, 6, 0, 0), At(Today, 22, 45, 0), "daily", {}) >>

\* the members of a set of indices, in increasing order
RECURSIVE Ascending(_)
Ascending(S) ==
  IF S = {} THEN <<>>
  ELSE LET m == CHOOSE x \in S : \A y \in S : x <= y
       IN <<m>> \o Ascending(S \ {m})

\* the records of pool at the indices S, in pool order, with ids 1, 2, ...
ListFrom(pool, S) ==
  LET ix == Ascending(S)
  IN [k \in 1..Len(ix) |-> [pool[ix[k]] EXCEPT !.id = k]]

\* the lists of at most n records of pool
ListsOf(pool, n) ==
  {ListFrom(pool, S) : S \in {X \in SUBSET (1..Len(pool)) : Cardinality(X) <= n}}

\* ------------------------------------------------------------------- state
VARIABLES
  now,               \* the clock every new Date() reads
  callerTasks,       \* the tasks argument of useScheduler
  callerBlocks,      \* the unavailableBlocks argument of useScheduler
  tasks,             \* this.tasks
  unavailableBlocks, \* this.unavailableBlocks
  timetable,         \* the timetable the caller holds: the last one returned
  passes,            \* the passes of placeTasks in the last generateTimetable
  last,              \* the last call: its arguments and the state it started from
  memo,              \* the first generateTimetableForDate: its inputs and output
  chain,             \* the runs for one date since the tasks were supplied
  ops,               \* engine calls so far
  utcOffset,         \* local time minus UTC, in seconds
  suppressed         \* the addExceptionToRecurringBlock calls that returned true

vars == <<now, callerTasks, callerBlocks, tasks, unavailableBlocks, timetable,
          passes, last, memo, chain, ops, utcOffset, suppressed>>

\* the task placements of a timetable: task id, start, end
Placements(tt) ==
  {<<tt[i].taskId, tt[i].startTime, tt[i].endTime>> : i \in {k \in 1..Len(tt) : tt[k].type = "task"}}

NoBlock == [id |-> 0, startTime |-> 0, endTime |-> 0, recurring |-> "none",
            days |-> {}, exceptions |-> <<>>]

NoCall == [op |-> "none", date |-> Undefined, taskId |-> 0, newStartTime |-> Undefined,
           given |-> FALSE, tasksBefore |-> <<>>, timetableBefore |-> <<>>,
           blockId |-> 0, exceptionDate |-> Undefined, repeated |-> FALSE,
           block |-> NoBlock, blocksBefore |-> <<>>, callerTasksBefore |-> <<>>,
           cleared |-> <<>>, returned |-> Undefined]
NoMemo == [runs |-> 0, date |-> Undefined, tasksIn |-> <<>>, blocksIn |-> <<>>, out |-> <<>>]
NoChain == [date |-> Undefined, first |-> {}, len |-> 0]

\* a setTasks that fills the list once and keeps it afterwards
setTasksOnce(ts) == IF tasks = <<>> THEN FilterIncomplete(ts) ELSE tasks

\* setTasks(tasks)
setTasks(ts) == FilterIncomplete(ts)

\* setUnavailableBlocks(blocks)
setUnavailableBlocks(blocks) == blocks

Init ==
  /\ now \in CoreNows
  /\ callerTasks \in ListsOf(CoreTaskPool, MaxTasks)
  /\ callerBlocks \in ListsOf(CoreBlockPool, MaxBlocks)
  /\ tasks = <<>>
  /\ unavailableBlocks = <<>>
  /\ timetable = <<>>
  /\ passes = <<>>
  /\ last = NoCall
  /\ memo = NoMemo
  /\ chain = NoChain
  /\ ops = 0
  /\ utcOffset = 0
  /\ suppressed = {}

\* useScheduler.generateTimetableForDate(date)
GenerateTimetableForDate(date) ==
  /\ \E g \in {generateTimetable(setTasks(callerTasks),
                                   setUnavailableBlocks(callerBlocks), date, now)} :
        /\ tasks' = g.tasks
        /\ unavailableBlocks' = setUnavailableBlocks(callerBlocks)
        /\ timetable' = g.out
        /\ passes' = g.passes
        /\ last' = [NoCall EXCEPT !.op = "generateTimetableForDate", !.date = date,
                                  !.tasksBefore = tasks, !.timetableBefore = timetable]
        /\ memo' = IF memo.runs = 0
                   THEN [runs |-> 1, date |-> date, tasksIn |-> callerTasks,
                         blocksIn |-> callerBlocks, out |-> g.out]
                   ELSE IF memo.date = date /\ memo.tasksIn = callerTasks
                             /\ memo.blocksIn = callerBlocks
                        THEN [memo EXCEPT !.runs = 2]
                        ELSE memo
        /\ chain' = [date |-> date, first |-> Placements(g.out), len |-> 1]
  /\ ops' = ops + 1
  /\ UNCHANGED <<now, callerTasks, callerBlocks, utcOffset, suppressed>>

\* scheduler.generateTimetable(date), on the tasks and blocks the scheduler holds
GenerateTimetable(date) ==
  /\ \E g \in {generateTimetable(tasks, unavailableBlocks, date, now)} :
        /\ tasks' = g.tasks
        /\ timetable' = g.out
        /\ passes' = g.passes
        /\ last' = [NoCall EXCEPT !.op = "generateTimetable", !.date = date,
                                  !.tasksBefore = tasks, !.timetableBefore = timetable]
        /\ chain' = IF chain.len > 0 /\ chain.date = date
                    THEN [chain EXCEPT !.len = 2]
                    ELSE NoChain
  /\ ops' = ops + 1
  /\ UNCHANGED <<now, callerTasks, callerBlocks, unavailableBlocks, memo,
                 utcOffset, suppressed>>

\* useScheduler.rescheduleTask(taskId, newStartTime, currentTimetable): the
\* caller passes the timetable it holds
RescheduleTask(taskId, newStartTime) ==
  /\ \E r \in {rescheduleTask(tasks, taskId, newStartTime, timetable)} :
        /\ tasks' = r.tasks
        /\ timetable' = r.out
  /\ last' = [NoCall EXCEPT !.op = "rescheduleTask", !.date = DayOf(newStartTime),
                            !.taskId = taskId, !.newStartTime = newStartTime,
                            !.given = TRUE, !.tasksBefore = tasks,
                            !.timetableBefore = timetable]
  /\ chain' = NoChain
  /\ ops' = ops + 1
  /\ UNCHANGED <<now, callerTasks, callerBlocks, unavailableBlocks, passes, memo,
                 utcOffset, suppressed>>

Next ==
  \/ \E date \in Dates : ops < MaxOps /\ GenerateTimetableForDate(date)
  \/ \E date \in Dates : ops < MaxOps /\ GenerateTimetable(date)
  \/ \E taskId \in 1..MaxTasks, newStartTime \in NewStarts :
       ops < MaxOps /\ RescheduleTask(taskId, newStartTime)

Spec == Init /\ [][Next]_vars

\* One call of generateTimetableForDate on a new scheduler, over the wider inputs.
InitOne ==
  /\ now \in NowPool
  /\ callerTasks \in ListsOf(TaskPool, MaxTasks)
  /\ callerBlocks \in ListsOf(BlockPool, MaxBlocks)
  /\ tasks = <<>>
  /\ unavailableBlocks = <<>>
  /\ timetable = <<>>
  /\ passes = <<>>
  /\ last = NoCall
  /\ memo = NoMemo
  /\ chain = NoChain
  /\ ops = 0
  /\ utcOffset = 0
  /\ suppressed = {}

NextOne == \E date \in Dates : ops = 0 /\ GenerateTimetableForDate(date)

SpecOne == InitOne /\ [][NextOne]_vars

\* ------------------------------------------- the recurring exception manager
\* The inputs of the behaviours that suppress occurrences of recurring blocks.
\* Local time minus UTC: five hours behind, none, five and a half hours ahead.
Offsets == {0 - 5 * HourLen, 0, 5 * HourLen + 30 * Minute}

\* the dates a caller suppresses: tomorrow early, at noon and late, today at noon
ExceptionDates ==
  {At(Today + 1, 2, 0, 0), At(Today + 1, 12, 0, 0), At(Today + 1, 22, 0, 0),
   At(Today, 12, 0, 0)}

ExceptionTaskPool ==
  << Task(60, At(Today + 1, 12, 0, 0), "low", Undefined, FALSE),
     Task(45, At(Today + 1, 12, 0, 0), "low", At(Today + 1, 9, 0, 0), FALSE) >>

\* a daily block with today among its exceptions, a weekly block for tomorrow's
\* day of the week, a block for tomorrow only, a block for yesterday only, a
\* weekly block for today's and tomorrow's day of the week with tomorrow among
\* its exceptions
ExceptionBlockPool ==
  << [Block(At(Today, 12, 0, 0), At(Today, 13, 0, 0), "daily", {})
        EXCEPT !.exceptions = <<LocalDateString(At(Today, 0, 0, 0))>>],
     Block(At(Today, 14, 0, 0), At(Today, 15, 0, 0), "weekly", {GetDay(Today + 1)}),
     Block(At(Today + 1, 16, 0, 0), At(Today + 1, 17, 0, 0), "none", {}),
     Block(At(Today - 1, 16, 0, 0), At(Today - 1, 17, 0, 0), "none", {}),
     [Block(At(Today, 18, 0, 0), At(Today, 19, 0, 0), "weekly",
            {GetDay(Today), GetDay(Today + 1)})
        EXCEPT !.exceptions = <<LocalDateString(At(Today + 1, 0, 0, 0))>>] >>

InitException ==
  /\ now = At(Today, 5, 50, 0)
  /\ callerTasks \in ListsOf(ExceptionTaskPool, MaxTasks)
  /\ callerBlocks \in ListsOf(ExceptionBlockPool, MaxBlocks)
  /\ tasks = <<>>
  /\ unavailableBlocks = <<>>
  /\ timetable = <<>>
  /\ passes = <<>>
  /\ last = NoCall
  /\ memo = NoMemo
  /\ chain = NoChain
  /\ ops = 0
  /\ utcOffset \in Offsets
  /\ suppressed = {}

\* scheduler.addExceptionToRecurringBlock(blockId, exceptionDate). The array the
\* scheduler holds is the caller's (setUnavailableBlocks keeps the reference),
\* so the caller's block records change with it.
AddExceptionToRecurringBlock(blockId, exceptionDate) ==
  /\ \E r \in {addExceptionToRecurringBlock(unavailableBlocks, blockId,
                                             exceptionDate, utcOffset)} :
        /\ unavailableBlocks' = r.blocks
        /\ callerBlocks' = IF r.ok THEN r.blocks ELSE callerBlocks
        /\ suppressed' = IF r.ok THEN suppressed \cup {<<blockId, exceptionDate>>}
                         ELSE suppressed
        /\ last' = [NoCall EXCEPT !.op = "addExceptionToRecurringBlock",
                                  !.date = LocalDateString(exceptionDate),
                                  !.blockId = blockId,
                                  !.exceptionDate = exceptionDate,
                                  !.repeated = <<blockId, exceptionDate>> \in suppressed,
                                  !.blocksBefore = unavailableBlocks,
                                  !.tasksBefore = tasks,
                                  !.timetableBefore = timetable,
                                  !.returned = IF r.ok THEN 1 ELSE 0]
  /\ chain' = NoChain
  /\ ops' = ops + 1
  /\ UNCHANGED <<now, callerTasks, tasks, timetable, passes, memo, utcOffset>>

NextException ==
  \/ \E date \in Dates : ops < MaxOps /\ GenerateTimetableForDate(date)
  \/ \E blockId \in 1..(MaxBlocks + 1), exceptionDate \in ExceptionDates :
       ops < MaxOps /\ AddExceptionToRecurringBlock(blockId, exceptionDate)

SpecException == InitException /\ [][NextException]_vars

\* ------------------------------------------- addUnavailableBlockAndReschedule
\* The inputs of the behaviours that add an unavailable block.
\* Tasks placed tomorrow at 09:00, 09:50 and 11:40 and the day after at 09:30,
\* and one not placed yet.
EditTaskPool ==
  << Task(30, At(Today, 18, 0, 0), "high", At(Today + 1, 9, 0, 0), FALSE),
     Task(90, At(Today + 2, 12, 0, 0), "high", At(Today + 1, 9, 50, 0), FALSE),
     Task(90, At(Today + 2, 12, 0, 0), "high", At(Today + 1, 11, 40, 0), FALSE),
     Task(45, At(Today + 2, 12, 0, 0), "low", At(Today + 2, 9, 30, 0), FALSE),
     Task(60, At(Today + 1, 12, 0, 0), "low", Undefined, FALSE) >>

\* the blocks a caller adds, all 09:00-10:00: tomorrow only, daily, weekly on
\* the day of the week of the day after tomorrow
NewBlocks ==
  { Block(At(Today + 1, 9, 0, 0), At(Today + 1, 10, 0, 0), "none", {}),
    Block(At(Today, 9, 0, 0), At(Today, 10, 0, 0), "daily", {}),
    Block(At(Today, 9, 0, 0), At(Today, 10, 0, 0), "weekly", {GetDay(Today + 2)}) }

\* the blocks the caller holds before the call: the daily, the weekly and the
\* tomorrow-only block of the exception inputs
EditBlockPool == SubSeq(ExceptionBlockPool, 1, 3)

InitEdit ==
  /\ now = At(Today, 5, 50, 0)
  /\ callerTasks \in ListsOf(EditTaskPool, MaxTasks)
  /\ callerBlocks \in ListsOf(EditBlockPool, MaxBlocks)
  /\ tasks = <<>>
  /\ unavailableBlocks = <<>>
  /\ timetable = <<>>
  /\ passes = <<>>
  /\ last = NoCall
  /\ memo = NoMemo
  /\ chain = NoChain
  /\ ops = 0
  /\ utcOffset = 0
  /\ suppressed = {}

\* the caller's task records once the scheduler has changed, in place, the
\* records it shares with the caller: setTasks keeps the records of the
\* incomplete tasks, not copies of them
WrittenThrough(callerList, ts) ==
  [i \in 1..Len(callerList) |->
     IF \E j \in 1..Len(ts) : ts[j].id = callerList[i].id
     THEN ts[CHOOSE j \in 1..Len(ts) : ts[j].id = callerList[i].id]
     ELSE callerList[i]]

\* useScheduler.addUnavailableBlockAndReschedule(block, targetDate)
AddUnavailableBlockAndReschedule(block, targetDate) ==
  /\ \E r \in {addUnavailableBlockAndReschedule(
                   setTasks(callerTasks), setUnavailableBlocks(callerBlocks),
                   [block EXCEPT !.id = Len(callerBlocks) + 1], targetDate, now)} :
        /\ callerTasks' = WrittenThrough(callerTasks, r.cleared)
        /\ tasks' = r.tasks
        /\ timetable' = r.updatedTimetable
        /\ passes' = r.passes
        /\ last' = [NoCall EXCEPT !.op = "addUnavailableBlockAndReschedule",
                                  !.date = targetDate,
                                  !.block = [block EXCEPT !.id = Len(callerBlocks) + 1],
                                  !.blocksBefore = unavailableBlocks,
                                  !.tasksBefore = tasks,
                                  !.timetableBefore = timetable,
                                  !.callerTasksBefore = callerTasks,
                                  !.cleared = r.cleared,
                                  !.returned = r.rescheduledTasksCount]
  /\ unavailableBlocks' = setUnavailableBlocks(callerBlocks)
  /\ chain' = NoChain
  /\ ops' = ops + 1
  /\ UNCHANGED <<now, callerBlocks, memo, utcOffset, suppressed>>

NextEdit ==
  \/ \E date \in Dates : ops < MaxOps /\ GenerateTimetableForDate(date)
  \/ \E block \in NewBlocks, targetDate \in Dates :
       ops < MaxOps /\ AddUnavailableBlockAndReschedule(block, targetDate)

SpecEdit == InitEdit /\ [][NextEdit]_vars

\* The inputs of the behaviours of one addUnavailableBlockAndReschedule: the
\* blocks above, and weekly blocks on tomorrow's day of the week, whose
\* datesToCheck holds tomorrow twice when tomorrow is the target date
CountBlocks ==
  NewBlocks \cup
  { Block(At(Today, 9, 0, 0), At(Today, 10, 0, 0), "weekly", {GetDay(Today + 1)}),
    Block(At(Today, 9, 0, 0), At(Today, 10, 0, 0), "weekly",
          {GetDay(Today + 1), GetDay(Today + 2)}) }

NextCount ==
  \E block \in CountBlocks, targetDate \in Dates :
    ops = 0 /\ AddUnavailableBlockAndReschedule(block, targetDate)

SpecCount == InitEdit /\ [][NextCount]_vars

\* ------------------------------------------------------ the slot allocator
\* The inputs of the behaviours that look at one run of the allocator: tasks
\* whose length is not a whole number of quarter hours, of exactly and of more
\* than maxContinuousWork minutes, a long task due within a day, and tasks the
\* caller scheduled at ten to the hour, yesterday and earlier today, and an
\* overdue task.
PlaceNows == {At(Today, 5, 50, 0), At(Today, 10, 7, 0)}

PlaceTaskPool ==
  << Task(50, At(Today + 1, 12, 0, 0), "high", Undefined, FALSE),
     Task(120, At(Today + 1, 12, 0, 0), "high", Undefined, FALSE),
     Task(90, At(Today + 1, 12, 0, 0), "low", Undefined, FALSE),
     Task(200, At(Today, 18, 0, 0), "medium", Undefined, FALSE),
     Task(60, At(Today + 1, 18, 0, 0), "medium", Undefined, FALSE),
     Task(60, At(Today + 1, 12, 0, 0), "low", At(Today + 1, 6, 50, 0), FALSE),
     Task(30, At(Today + 1, 12, 0, 0), "low", At(Today - 1, 9, 0, 0), FALSE),
     Task(45, At(Today + 1, 12, 0, 0), "low", At(Today, 9, 0, 0), FALSE),
     Task(30, At(Today - 1, 12, 0, 0), "low", Undefined, FALSE) >>

PlaceBlockPool ==
  << Block(At(Today, 6, 50, 0), At(Today, 8, 0, 0), "daily", {}),
     Block(At(Today, 10, 0, 0), At(Today, 11, 0, 0), "none", {}),
     Block(At(Today, 12, 0, 0), At(Today, 13, 0, 0), "weekly", {GetDay(Today + 1)}) >>

InitPlace ==
  /\ now \in PlaceNows
  /\ callerTasks \in ListsOf(PlaceTaskPool, MaxTasks)
  /\ callerBlocks \in ListsOf(PlaceBlockPool, MaxBlocks)
  /\ tasks = <<>>
  /\ unavailableBlocks = <<>>
  /\ timetable = <<>>
  /\ passes = <<>>
  /\ last = NoCall
  /\ memo = NoMemo
  /\ chain = NoChain
  /\ ops = 0
  /\ utcOffset = 0
  /\ suppressed = {}

NextPlace == \E date \in Dates : ops = 0 /\ GenerateTimetableForDate(date)

SpecPlace == InitPlace /\ [][NextPlace]_vars

\* ------------------------------------------------------- the break inserter
\* The inputs of the behaviours that look at one run of the break inserter:
\* tasks the caller placed tomorrow at 06:00, 07:30, 09:30, 11:30 and 12:30,
\* with gaps of 30, 75, 30 and 30 minutes between neighbours, and one not
\* placed yet; up to three of them (one more than elsewhere), so that a
\* timetable holds two breaks
BreakTaskPool ==
  << Task(60, At(Today + 2, 12, 0, 0), "low", At(Today + 1, 6, 0, 0), FALSE),
     Task(45, At(Today + 2, 12, 0, 0), "low", At(Today + 1, 7, 30, 0), FALSE),
     Task(90, At(Today + 2, 12, 0, 0), "high", At(Today + 1, 9, 30, 0), FALSE),
     Task(30, At(Today + 2, 12, 0, 0), "high", At(Today + 1, 11, 30, 0), FALSE),
     Task(60, At(Today + 2, 12, 0, 0), "high", At(Today + 1, 12, 30, 0), FALSE),
     Task(50, At(Today + 1, 12, 0, 0), "high", Undefined, FALSE) >>

InitBreak ==
  /\ now \in PlaceNows
  /\ callerTasks \in ListsOf(BreakTaskPool, MaxTasks + 1)
  /\ callerBlocks = <<>>
  /\ tasks = <<>>
  /\ unavailableBlocks = <<>>
  /\ timetable = <<>>
  /\ passes = <<>>
  /\ last = NoCall
  /\ memo = NoMemo
  /\ chain = NoChain
  /\ ops = 0
  /\ utcOffset = 0
  /\ suppressed = {}

NextBreak == \E date \in Dates : ops = 0 /\ GenerateTimetableForDate(date)

SpecBreak == InitBreak /\ [][NextBreak]_vars

\* ------------------------------------------------------------- the clock
\* The behaviours of one scheduler kept over midnight: the scheduler lives as
\* long as the component that holds it, and every new Date() reads the clock
\* of its call. The clock moves on by a day, once.
Tick ==
  /\ DayOf(now) = Today
  /\ now' = now + DayLen
  /\ last' = [NoCall EXCEPT !.op = "tick"]
  /\ UNCHANGED <<callerTasks, callerBlocks, tasks, unavailableBlocks, timetable,
                 passes, memo, chain, ops, utcOffset, suppressed>>

NextClock ==
  \/ \E date \in Dates : ops < MaxOps /\ GenerateTimetableForDate(date)
  \/ \E date \in Dates : ops < MaxOps /\ GenerateTimetable(date)
  \/ Tick

SpecClock == Init /\ [][NextClock]_vars

\* ================================================================== claims
\* What the claims speak of, stated apart from the definitions above.
Generated == last.op \in {"generateTimetableForDate", "generateTimetable"}
ByHook == last.op = "generateTimetableForDate"

\* a and b overlap: a.start < b.end and a.end > b.start
Overlap(a, b) == a.startTime < b.endTime /\ a.endTime > b.startTime

NoTwoOverlap(tt) ==
  \A i \in 1..Len(tt) : \A j \in 1..Len(tt) : i # j => ~Overlap(tt[i], tt[j])

\* 06:00 and 23:00 of a date
WorkStart(date) == date * DayLen + 6 * HourLen
WorkEnd(date) == date * DayLen + 23 * HourLen

\* the indices of the blocks of one type
BlocksOfType(tt, type) == {i \in 1..Len(tt) : tt[i].type = type}

\* the caller supplied no completed task and no task that carries a scheduledTime
AllUnscheduled(ts) ==
  \A i \in 1..Len(ts) : ~ts[i].completed /\ ts[i].scheduledTime = Undefined

\* C1: no two distinct blocks of an output of generateTimetable overlap. Stated
\* here for the inputs of the claim that are well formed: no supplied task
\* carries a scheduledTime, and the unavailable blocks of the output are
\* pairwise disjoint.
C1_NoOverlap ==
  ( /\ Generated
    /\ AllUnscheduled(callerTasks)
    /\ \A i \in BlocksOfType(timetable, "unavailable") :
         \A j \in BlocksOfType(timetable, "unavailable") :
           i # j => ~Overlap(timetable[i], timetable[j]) )
  => NoTwoOverlap(timetable)

\* C1, the case the model shows: a break lies over an unavailable block
C1_BreakOverUnavailable ==
  /\ Generated
  /\ AllUnscheduled(callerTasks)
  /\ \E i \in BlocksOfType(timetable, "break") :
       \E j \in BlocksOfType(timetable, "unavailable") :
         Overlap(timetable[i], timetable[j])

C3_RerunSamePlacements ==
  (last.op = "generateTimetable" /\ chain.len = 2 /\ chain.date = last.date)
  => Placements(timetable) = chain.first

\* C4: for a target date before today generateTimetable returns the empty
\* sequence and no task is placed: the scheduler's task list is the list it
\* held (the supplied incomplete tasks, when the hook has just supplied them).
C4_PastDateEmpty ==
  (Generated /\ last.date < DayOf(now))
  => /\ timetable = <<>>
     /\ passes = <<>>
     /\ tasks = IF ByHook THEN FilterIncomplete(callerTasks) ELSE last.tasksBefore

\* C4: a call for yesterday on a scheduler that holds a daily unavailable block
\* and an incomplete task
C4_PastDateCall ==
  /\ Generated
  /\ last.date < DayOf(now)
  /\ \E i \in 1..Len(unavailableBlocks) : unavailableBlocks[i].recurring = "daily"
  /\ tasks # <<>>
  /\ timetable = <<>>

\* the quarter-hour marks of the working hours of a date
QuarterMarks(date) == {WorkStart(date) + q * 900 : q \in 0..67}

\* the first instant a task may start on a date, as the specification has it:
\* 06:00, and on today not before the first quarter-hour mark that is at least
\* 15 minutes after now
EarliestStart(date, clock) ==
  LET soonest == ((clock + 900 + 899) \div 900) * 900
  IN IF date = DayOf(clock) /\ soonest > WorkStart(date) THEN soonest
     ELSE WorkStart(date)

\* [s, e) is clear of every block of tt
ClearOf(tt, s, e) ==
  \A n \in 1..Len(tt) : ~(s < tt[n].endTime /\ e > tt[n].startTime)

\* the continuous-work gap rule of the specification for a start s
GapRuleMet(s, lastEnd, work) ==
  work >= 90 => s - lastEnd >= (IF work >= 120 THEN 30 ELSE 15) * 60

\* the starts the specification allows for the task of a pass of placeTasks
FeasibleStarts(pass, date, clock) ==
  {s \in QuarterMarks(date) :
     /\ s >= EarliestStart(date, clock)
     /\ s + pass.task.duration * 60 <= WorkEnd(date)
     /\ ClearOf(pass.timetable, s, s + pass.task.duration * 60)
     /\ GapRuleMet(s, pass.lastTaskEndTime, pass.continuousWorkTime)}

\* the supplied list is one incomplete task without scheduledTime whose
\* deadline was yesterday
OneOverdueTask ==
  /\ Len(callerTasks) = 1
  /\ ~callerTasks[1].completed
  /\ callerTasks[1].scheduledTime = Undefined
  /\ DayOf(callerTasks[1].deadline) = DayOf(now) - 1
  /\ callerTasks[1].duration > 0

\* C5: carry-forward. One incomplete task with deadline yesterday and no
\* scheduledTime, no unavailable blocks, target date today: the task appears
\* as a task block of the output, whenever the rest of today's working hours
\* has room for its duration.
C5_CarryForward ==
  ( /\ ByHook
    /\ last.date = DayOf(now)
    /\ OneOverdueTask
    /\ callerBlocks = <<>>
    /\ EarliestStart(last.date, now) + callerTasks[1].duration * 60 <= WorkEnd(last.date) )
  => \E i \in BlocksOfType(timetable, "task") : timetable[i].taskId = callerTasks[1].id

\* the score of the specification for a task of at most 120 minutes
ScoreOf(task, clock) ==
  LET secondsLeft == task.deadline - clock
      urgency == IF secondsLeft <= 24 * 3600 THEN 80
                 ELSE IF secondsLeft <= 48 * 3600 THEN 60
                 ELSE IF secondsLeft <= 168 * 3600 THEN 40 ELSE 15
      weight == IF task.priority = "high" THEN 40
                ELSE IF task.priority = "medium" THEN 25 ELSE 10
      category == IF task.type = "work" THEN 15
                  ELSE IF task.type = "study" THEN 12 ELSE 8
  IN urgency + weight + category

\* the quarter hours of the working hours of a date that no unavailable block
\* of tt touches
FreeQuarters(tt, date) ==
  {s \in QuarterMarks(date) :
     \A n \in BlocksOfType(tt, "unavailable") :
       ~(s < tt[n].endTime /\ s + 900 > tt[n].startTime)}

\* the unavailable blocks leave one free hour: four free quarters in a row
OneFreeHour(tt, date) ==
  \E s \in QuarterMarks(date) :
    FreeQuarters(tt, date) = {s, s + 900, s + 1800, s + 2700}

\* the supplied list is two incomplete 60-minute tasks without scheduledTime,
\* due on the date or later, with different scores
TwoRivals(date) ==
  /\ Len(callerTasks) = 2
  /\ \A i \in 1..2 : /\ callerTasks[i].duration = 60
                     /\ ~callerTasks[i].completed
                     /\ callerTasks[i].scheduledTime = Undefined
                     /\ DayOf(callerTasks[i].deadline) >= date
  /\ ScoreOf(callerTasks[1], now) # ScoreOf(callerTasks[2], now)

\* C6: priority under scarcity. Two eligible 60-minute tasks, a date after
\* today, and unavailable blocks that leave one free hour in the working
\* hours, wherever it lies: the task with the higher score is placed in that
\* hour and it is the only task block of the output.
C6_ScarcityPriority ==
  ( /\ ByHook
    /\ last.date > DayOf(now)
    /\ TwoRivals(last.date)
    /\ OneFreeHour(timetable, last.date) )
  => LET winner == IF ScoreOf(callerTasks[1], now) > ScoreOf(callerTasks[2], now)
                   THEN callerTasks[1] ELSE callerTasks[2]
         hour == CHOOSE s \in FreeQuarters(timetable, last.date) :
                   \A x \in FreeQuarters(timetable, last.date) : s <= x
     IN Placements(timetable) = {<<winner.id, hour, hour + 3600>>}

\* C7: a task is left unplaced only when no feasible slot exists. In every
\* pass of the allocator, if some quarter-hour start at or after the window
\* start ends by 23:00, overlaps no block already in the timetable and meets
\* the gap rule, the pass finds a slot.
C7_PlacedWhenFeasible ==
  ByHook =>
    \A k \in 1..Len(passes) :
      FeasibleStarts(passes[k], last.date, now) # {} => passes[k].slot.found

\* C8: every slot the allocator finds lies inside the working hours of the
\* target date: it starts at or after 06:00 and ends at or before 23:00.
C8_InsideWorkingHours ==
  ByHook =>
    \A k \in 1..Len(passes) :
      passes[k].slot.found =>
        /\ passes[k].slot.start >= WorkStart(last.date)
        /\ passes[k].slot.end <= WorkEnd(last.date)

\* C9: the engine never schedules into the past. When the target date is
\* today, no newly placed task block of the output starts before now (the
\* least that "no earlier than now + 15 minutes" asks for).
C9_NeverIntoPast ==
  (ByHook /\ last.date = DayOf(now)) =>
    \A k \in 1..Len(passes) :
      passes[k].slot.found =>
        \A i \in BlocksOfType(timetable, "task") :
          timetable[i].taskId = passes[k].task.id => timetable[i].startTime >= now

\* the blocks of tt for a task id
BlocksFor(tt, taskId) == {i \in 1..Len(tt) : tt[i].taskId = taskId}

\* the interval asked for, [newStart, newStart + duration), overlaps a block of
\* tt that is not the task's own
HitsOtherBlock(tt, taskId, newStart) ==
  \E i \in BlocksFor(tt, taskId) :
    \E n \in 1..Len(tt) :
      /\ tt[n].taskId # taskId
      /\ newStart < tt[n].endTime
      /\ newStart + tt[i].task.duration * 60 > tt[n].startTime

\* C10: rescheduleTask returns the timetable it was given, and leaves the
\* scheduler's task list as it was, whenever the task id has no block in the
\* timetable or the new interval overlaps another block (task, break or
\* unavailable).
C10_RejectedUnchanged ==
  ( /\ last.op = "rescheduleTask"
    /\ \/ BlocksFor(last.timetableBefore, last.taskId) = {}
       \/ HitsOtherBlock(last.timetableBefore, last.taskId, last.newStartTime) )
  => /\ timetable = last.timetableBefore
     /\ tasks = last.tasksBefore

\* C10: a task that has a block is asked to [10:30, 11:15) of today, where only
\* the unavailable block [10:00, 11:00) is in the way
C10_AgainstUnavailable ==
  /\ last.op = "rescheduleTask"
  /\ last.newStartTime = At(Today, 10, 30, 0)
  /\ \E i \in BlocksFor(last.timetableBefore, last.taskId) :
       /\ last.timetableBefore[i].task.duration = 45
       /\ \A n \in BlocksOfType(last.timetableBefore, "task") :
            n # i => ~Overlap(last.timetableBefore[n],
                              [startTime |-> At(Today, 10, 30, 0),
                               endTime |-> At(Today, 11, 15, 0)])
  /\ \E n \in BlocksOfType(last.timetableBefore, "unavailable") :
       /\ last.timetableBefore[n].startTime = At(Today, 10, 0, 0)
       /\ last.timetableBefore[n].endTime = At(Today, 11, 0, 0)
  /\ timetable = last.timetableBefore
  /\ tasks = last.tasksBefore

UnavailableFrom(tt, blockId) ==
  {i \in BlocksOfType(tt, "unavailable") : tt[i].id[2] = blockId}

\* x is an entry of the list
Listed(list, x) == \E k \in 1..Len(list) : list[k] = x

\* C12: exception suppression. For a daily block whose exceptions hold the
\* date D (D not in the past), generateTimetable(D) has no unavailable block
\* from it, and generateTimetable(D + 1) has exactly one (D + 1 not being an
\* exception itself).
C12_ExceptionSuppresses ==
  (ByHook /\ last.date >= DayOf(now)) =>
    \A b \in 1..Len(callerBlocks) :
      callerBlocks[b].recurring = "daily" =>
        /\ Listed(callerBlocks[b].exceptions, last.date)
             => UnavailableFrom(timetable, callerBlocks[b].id) = {}
        /\ ( /\ Listed(callerBlocks[b].exceptions, last.date - 1)
             /\ last.date - 1 >= DayOf(now)
             /\ ~Listed(callerBlocks[b].exceptions, last.date) )
             => Cardinality(UnavailableFrom(timetable, callerBlocks[b].id)) = 1

\* C12: generateTimetable for today, where the daily block has today among its
\* exceptions: a task is placed and the block is not in the output
C12_SuppressedToday ==
  /\ ByHook
  /\ last.date = DayOf(now)
  /\ \E b \in 1..Len(callerBlocks) :
       /\ callerBlocks[b].recurring = "daily"
       /\ Listed(callerBlocks[b].exceptions, last.date)
       /\ UnavailableFrom(timetable, callerBlocks[b].id) = {}
  /\ BlocksOfType(timetable, "task") # {}

\* the definition with this id applies on a date: the unavailable blocks built
\* for the date include one from it
AppearsOn(blocks, blockId, date) ==
  \E i \in 1..Len(addUnavailableBlocks(blocks, date)) :
    addUnavailableBlocks(blocks, date)[i].id[2] = blockId

\* C13: suppressing one occurrence round-trips. After
\* addExceptionToRecurringBlock(block, D) has returned true, the timetable for
\* the calendar date D does not contain the block, the definition is still in
\* the list, and it appears on every other date on which it appeared before.
C13_SuppressionRoundTrip ==
  (last.op = "addExceptionToRecurringBlock" /\ last.returned = 1) =>
    /\ ~AppearsOn(unavailableBlocks, last.blockId, DayOf(last.exceptionDate))
    /\ \E i \in 1..Len(unavailableBlocks) : unavailableBlocks[i].id = last.blockId
    /\ \A d \in {Today, Today + 1, Today + 2} :
         (d # DayOf(last.exceptionDate) /\ AppearsOn(last.blocksBefore, last.blockId, d))
           => AppearsOn(unavailableBlocks, last.blockId, d)

\* no entry of the list occurs twice
NoDuplicates(list) ==
  \A j \in 1..Len(list) : \A k \in 1..Len(list) : j # k => list[j] # list[k]

\* the list holds a recurring block with this id
KnownRecurring(blocks, blockId) ==
  \E i \in 1..Len(blocks) : blocks[i].id = blockId /\ blocks[i].recurring # "none"

\* C14: addExceptionToRecurringBlock is idempotent and fails safely. For a
\* block that is not recurring or an id that is unknown it changes no block
\* and returns false. For a recurring block it returns true, no exceptions
\* list gets an entry twice, and adding the same date once more leaves every
\* list as it is.
C14_AddExceptionSafe ==
  last.op = "addExceptionToRecurringBlock" =>
    /\ ~KnownRecurring(last.blocksBefore, last.blockId)
         => (unavailableBlocks = last.blocksBefore /\ last.returned = 0)
    /\ KnownRecurring(last.blocksBefore, last.blockId)
         => /\ last.returned = 1
            /\ \A i \in 1..Len(unavailableBlocks) :
                 NoDuplicates(unavailableBlocks[i].exceptions)
            /\ addExceptionToRecurringBlock(unavailableBlocks, last.blockId,
                                            last.exceptionDate, utcOffset).blocks
                 = unavailableBlocks
    /\ last.repeated => unavailableBlocks = last.blocksBefore

\* C14: the date is added to a recurring block whose exceptions hold it
\* already: the call returns true and the list is as before
C14_AddedTwice ==
  /\ last.op = "addExceptionToRecurringBlock"
  /\ last.returned = 1
  /\ \E i \in 1..Len(last.blocksBefore) :
       /\ last.blocksBefore[i].id = last.blockId
       /\ Listed(last.blocksBefore[i].exceptions, DayOf(last.exceptionDate))
       /\ unavailableBlocks[i].exceptions = last.blocksBefore[i].exceptions
  /\ utcOffset = 0

\* the call returned the output of a generateTimetable
Regenerated ==
  last.op \in {"generateTimetableForDate", "generateTimetable",
               "addUnavailableBlockAndReschedule"}

\* i and j are consecutive among the task blocks of tt, which is sorted by start
ConsecutiveTasks(tt, i, j) ==
  /\ i \in BlocksOfType(tt, "task")
  /\ j \in BlocksOfType(tt, "task")
  /\ i < j
  /\ \A k \in BlocksOfType(tt, "task") : ~(i < k /\ k < j)

\* priority high or duration >= 90
Intensive(task) == task.priority = "high" \/ task.duration >= 90

\* the breaks of tt that start at the end of block i and end by the start of j
BreaksBetween(tt, i, j) ==
  {n \in BlocksOfType(tt, "break") :
     tt[n].startTime = tt[i].endTime /\ tt[n].endTime <= tt[j].startTime}

\* C15: break insertion. Between two consecutive task blocks whose tasks are
\* both intensive and that lie at least 15 minutes apart, the output has
\* exactly one break that starts at the end of the earlier task and ends at or
\* before the start of the later one.
C15_RestBreakInserted ==
  Regenerated =>
    \A i \in 1..Len(timetable) : \A j \in 1..Len(timetable) :
      ( /\ ConsecutiveTasks(timetable, i, j)
        /\ Intensive(timetable[i].task)
        /\ Intensive(timetable[j].task)
        /\ timetable[j].startTime - timetable[i].endTime >= 15 * 60 )
      => Cardinality(BreaksBetween(timetable, i, j)) = 1

\* C15: two 90-minute high-priority tasks 20 minutes apart, with one break
\* between them
C15_TwentyMinutesApart ==
  /\ Regenerated
  /\ \E i \in 1..Len(timetable) : \E j \in 1..Len(timetable) :
       /\ ConsecutiveTasks(timetable, i, j)
       /\ timetable[i].task.duration = 90 /\ timetable[i].task.priority = "high"
       /\ timetable[j].task.duration = 90 /\ timetable[j].task.priority = "high"
       /\ timetable[j].startTime - timetable[i].endTime = 20 * 60
       /\ Cardinality(BreaksBetween(timetable, i, j)) = 1

\* C16: no block of an output of generateTimetable refers to a completed
\* task: no block carries a completed snapshot and no block carries the id of
\* a task the caller holds as completed, whatever its scheduledTime and
\* whatever calls came before.
C16_NoCompletedTask ==
  Generated =>
    \A n \in 1..Len(timetable) :
      /\ timetable[n].type = "task" => ~timetable[n].task.completed
      /\ \A i \in 1..Len(callerTasks) :
           callerTasks[i].completed => timetable[n].taskId # callerTasks[i].id

\* C16: a second run, for the date on which a completed task of the caller is
\* scheduled, returns task blocks
C16_CompletedOnTheDate ==
  /\ Generated
  /\ ops = 2
  /\ \E i \in 1..Len(callerTasks) :
       /\ callerTasks[i].completed
       /\ callerTasks[i].scheduledTime # Undefined
       /\ DayOf(callerTasks[i].scheduledTime) = last.date
  /\ BlocksOfType(timetable, "task") # {}

\* the dates on which the specification looks for conflicts with a new block:
\* the block's own date, or the target date and the 7 days after it for a daily
\* block, the 4 weeks from the target date for a weekly one
Lookahead(block, targetDate) ==
  IF block.recurring = "daily" THEN targetDate..(targetDate + 7)
  ELSE IF block.recurring = "weekly" THEN targetDate..(targetDate + 27)
  ELSE {block.startTime \div 86400}

\* the calendar rule: the block has an occurrence on the date
OccursOn(block, date) ==
  IF block.recurring = "none" THEN block.startTime \div 86400 = date
  ELSE /\ ~Listed(block.exceptions, date)
       /\ (block.recurring = "weekly" => (date % 7) \in block.days)

\* [scheduledTime, scheduledTime + duration) overlaps an occurrence of the
\* block on a date of the lookahead
OverlapsOccurrence(task, block, targetDate) ==
  \E d \in Lookahead(block, targetDate) :
    /\ OccursOn(block, d)
    /\ task.scheduledTime < d * 86400 + (block.endTime % 86400)
    /\ task.scheduledTime + task.duration * 60 > d * 86400 + (block.startTime % 86400)

\* the conflict pass of the last call cleared the scheduledTime of the task
\* with this id
ClearedByLast(taskId) ==
  \E j \in 1..Len(last.cleared) :
    last.cleared[j].id = taskId /\ last.cleared[j].scheduledTime = Undefined

\* C17: addUnavailableBlockAndReschedule clears the scheduledTime of a task
\* if and only if the task is incomplete and its interval overlaps an
\* occurrence of the new block on a date of the lookahead; a task that
\* overlaps only the block's time of day on a date where the block does not
\* apply keeps its scheduledTime.
C17_ClearsOnlyRealConflicts ==
  last.op = "addUnavailableBlockAndReschedule" =>
    \A i \in 1..Len(last.callerTasksBefore) :
      last.callerTasksBefore[i].scheduledTime # Undefined =>
        ( ClearedByLast(last.callerTasksBefore[i].id)
          <=> ( /\ ~last.callerTasksBefore[i].completed
                /\ OverlapsOccurrence(last.callerTasksBefore[i], last.block, last.date) ) )

\* C18: in the timetable addUnavailableBlockAndReschedule returns, no task
\* block overlaps the occurrence of the new unavailable block on the target
\* date.
C18_NoTaskOverNewBlock ==
  last.op = "addUnavailableBlockAndReschedule" =>
    \A n \in UnavailableFrom(timetable, last.block.id) :
      \A i \in BlocksOfType(timetable, "task") : ~Overlap(timetable[i], timetable[n])

\* C18: the new block occurs on the target date, a task the caller had
\* scheduled across it is in the returned timetable at another time, and a
\* second such task is absent
C18_MovedAndAbsent ==
  /\ last.op = "addUnavailableBlockAndReschedule"
  /\ \E n \in UnavailableFrom(timetable, last.block.id) :
       /\ \E i \in 1..Len(last.callerTasksBefore) :
            /\ last.callerTasksBefore[i].scheduledTime # Undefined
            /\ last.callerTasksBefore[i].scheduledTime < timetable[n].endTime
            /\ last.callerTasksBefore[i].scheduledTime
                 + last.callerTasksBefore[i].duration * 60 > timetable[n].startTime
            /\ \E k \in BlocksFor(timetable, last.callerTasksBefore[i].id) :
                 timetable[k].startTime # last.callerTasksBefore[i].scheduledTime
       /\ \E i \in 1..Len(last.callerTasksBefore) :
            /\ last.callerTasksBefore[i].scheduledTime # Undefined
            /\ last.callerTasksBefore[i].scheduledTime < timetable[n].endTime
            /\ last.callerTasksBefore[i].scheduledTime
                 + last.callerTasksBefore[i].duration * 60 > timetable[n].startTime
            /\ BlocksFor(timetable, last.callerTasksBefore[i].id) = {}

\* C19: addUnavailableBlockAndReschedule is pure with respect to its caller:
\* when it has returned, the task records the caller supplied are as they were.
C19_CallerTasksUntouched ==
  last.op = "addUnavailableBlockAndReschedule" => callerTasks = last.callerTasksBefore

\* the caller's task i is incomplete and unscheduled, or scheduled before today
Uncommitted(i) ==
  /\ ~callerTasks[i].completed
  /\ \/ callerTasks[i].scheduledTime = Undefined
     \/ DayOf(callerTasks[i].scheduledTime) < DayOf(now)

\* the caller's task i is due on the date or later, or overdue
StillDue(i, date) ==
  \/ DayOf(callerTasks[i].deadline) >= date
  \/ DayOf(callerTasks[i].deadline) < DayOf(now)

\* C20: when the caller supplies the same task list again and does not commit
\* the result, a task that generateTimetableForDate placed on D1 is placed
\* again by generateTimetableForDate for another date D2: an incomplete task
\* that is unscheduled (or scheduled in the past) in the caller's list and
\* still due is handed to the allocator again, and has a block in the second
\* timetable whenever the allocator finds a slot.
C20_PlacedAgainOnOtherDate ==
  ( /\ last.op = "generateTimetableForDate"
    /\ memo.runs >= 1
    /\ memo.date # last.date
    /\ last.date >= DayOf(now) )
  => \A i \in 1..Len(callerTasks) :
       ( /\ Uncommitted(i)
         /\ StillDue(i, last.date)
         /\ BlocksFor(memo.out, callerTasks[i].id) # {}
         /\ memo.tasksIn = callerTasks )
       => \E k \in 1..Len(passes) :
            /\ passes[k].task.id = callerTasks[i].id
            /\ ( passes[k].slot.found =>
                   BlocksFor(timetable, callerTasks[i].id) # {} )

\* C20: generateTimetableForDate for D1 and then for D2 have both returned a
\* task block for the same unscheduled task of the caller's list
C20_SameTaskOnTwoDates ==
  /\ last.op = "generateTimetableForDate"
  /\ memo.runs >= 1
  /\ memo.date # last.date
  /\ memo.tasksIn = callerTasks
  /\ \E i \in 1..Len(callerTasks) :
       /\ ~callerTasks[i].completed
       /\ callerTasks[i].scheduledTime = Undefined
       /\ \E a \in BlocksFor(memo.out, callerTasks[i].id),
             b \in BlocksFor(timetable, callerTasks[i].id) :
            /\ DayOf(memo.out[a].startTime) = memo.date
            /\ DayOf(timetable[b].startTime) = last.date

\* the passes of the allocator that found a slot
PlacedPasses == {k \in 1..Len(passes) : passes[k].slot.found}

\* C21: every task block the allocator places overlaps no block that was in
\* the timetable when it was placed: no applicable unavailable block, no kept
\* pre-scheduled task block and no task block placed earlier in the same run.
C21_PlacedClearOfExisting ==
  ByHook =>
    \A k \in PlacedPasses :
      \A n \in 1..Len(passes[k].timetable) :
        ~( passes[k].slot.start < passes[k].timetable[n].endTime
           /\ passes[k].slot.end > passes[k].timetable[n].startTime )

\* C21: the allocator placed a task, later than the window start, into a
\* timetable that held an unavailable block and a task block placed before it
C21_PlacedAmongBlocks ==
  /\ ByHook
  /\ \E k \in PlacedPasses :
       /\ k > 1
       /\ passes[k - 1].slot.found
       /\ \E n \in 1..Len(passes[k].timetable) : passes[k].timetable[n].type = "unavailable"
       /\ \E n \in 1..Len(passes[k].timetable) :
            /\ passes[k].timetable[n].type = "task"
            /\ passes[k].timetable[n].taskId = passes[k - 1].task.id
       /\ passes[k].slot.start > passes[k - 1].slot.start
       /\ passes[k].slot.start > WorkStart(last.date)

\* the input is well formed: the unavailable blocks that apply to the date do
\* not overlap one another, and no task of the caller carries a scheduledTime
WellFormedInput ==
  /\ \A i \in BlocksOfType(timetable, "unavailable") :
       \A j \in BlocksOfType(timetable, "unavailable") :
         i # j => ~Overlap(timetable[i], timetable[j])
  /\ \A i \in 1..Len(callerTasks) : callerTasks[i].scheduledTime = Undefined

\* C22: with well-formed input no break block of generateTimetable's output
\* overlaps an unavailable block, also when an unavailable block lies in the
\* gap between the two tasks the break is inserted between.
C22_BreakClearOfUnavailable ==
  (ByHook /\ WellFormedInput) =>
    \A b \in BlocksOfType(timetable, "break") :
      \A u \in BlocksOfType(timetable, "unavailable") :
        ~Overlap(timetable[b], timetable[u])

\* the task blocks of tt do not overlap one another
TasksDisjoint(tt) ==
  \A i \in BlocksOfType(tt, "task") : \A j \in BlocksOfType(tt, "task") :
    i # j => ~Overlap(tt[i], tt[j])

\* C23: no break block overlaps a task block. Every break of a generated
\* timetable starts exactly at the end of the earlier task of a consecutive
\* pair of task blocks and ends at or before the start of the later one; and
\* when the task blocks are pairwise non-overlapping, it overlaps no task
\* block at all.
C23_BreakBetweenTasks ==
  Regenerated =>
    /\ \A b \in BlocksOfType(timetable, "break") :
         \E i \in 1..Len(timetable) : \E j \in 1..Len(timetable) :
           /\ ConsecutiveTasks(timetable, i, j)
           /\ b \in BreaksBetween(timetable, i, j)
    /\ ( TasksDisjoint(timetable) =>
           \A b \in BlocksOfType(timetable, "break") :
             \A i \in BlocksOfType(timetable, "task") :
               ~Overlap(timetable[b], timetable[i]) )

\* C23: a generated timetable holds a break that fills the whole gap between
\* two task blocks
C23_BreakFillsGap ==
  /\ Regenerated
  /\ \E b \in BlocksOfType(timetable, "break") :
       \E i \in BlocksOfType(timetable, "task") : \E j \in BlocksOfType(timetable, "task") :
         /\ timetable[b].startTime = timetable[i].endTime
         /\ timetable[b].endTime = timetable[j].startTime

\* C24: rescheduleTask preserves the no-overlap invariant: when no two blocks
\* of the timetable it is given overlap, no two blocks of the timetable it
\* returns overlap, for every task id and every new start.
C24_RescheduleKeepsNoOverlap ==
  (last.op = "rescheduleTask" /\ NoTwoOverlap(last.timetableBefore))
    => NoTwoOverlap(timetable)

\* C24: rescheduleTask has moved a task within a timetable of several blocks,
\* none of which overlapped
C24_MovedAmongOthers ==
  /\ last.op = "rescheduleTask"
  /\ NoTwoOverlap(last.timetableBefore)
  /\ Len(timetable) >= 3
  /\ timetable # last.timetableBefore
  /\ BlocksOfType(timetable, "unavailable") # {}

\* the last call was a rescheduleTask that moved the task's block
Moved ==
  /\ last.op = "rescheduleTask"
  /\ timetable # last.timetableBefore

\* C25: the working-hours invariant on scheduledTime survives rescheduleTask.
\* After a successful rescheduleTask the moved task's scheduledTime is not
\* before 06:00 of its day, and scheduledTime plus duration is not after 23:00
\* of that day.
C25_MovedInsideWorkingHours ==
  Moved =>
    \A i \in 1..Len(tasks) :
      tasks[i].id = last.taskId =>
        /\ tasks[i].scheduledTime >= WorkStart(DayOf(tasks[i].scheduledTime))
        /\ tasks[i].scheduledTime + tasks[i].duration * 60
             <= WorkEnd(DayOf(tasks[i].scheduledTime))

\* C26: earliest fit. When the allocator places a task at start s, no earlier
\* quarter-hour start s' of the window (s' at or after the window start,
\* s' < s) is such that [s', s' + duration) overlaps no block already in the
\* timetable and meets the continuous-work gap rule.
C26_EarliestFit ==
  ByHook =>
    \A k \in PlacedPasses :
      \A s \in QuarterMarks(last.date) :
        ( /\ s >= EarliestStart(last.date, now)
          /\ s < passes[k].slot.start )
        => ~( /\ ClearOf(passes[k].timetable, s, s + passes[k].task.duration * 60)
              /\ GapRuleMet(s, passes[k].lastTaskEndTime, passes[k].continuousWorkTime) )

\* the minutes of work of the tasks placed in the passes before pass k
RECURSIVE WorkPlacedBefore(_)
WorkPlacedBefore(k) ==
  IF k <= 1 THEN 0
  ELSE WorkPlacedBefore(k - 1)
         + (IF passes[k - 1].slot.found THEN passes[k - 1].task.duration ELSE 0)

\* the end of the task placed most recently before pass k
LastPlacedEnd(k) ==
  LET m == CHOOSE j \in PlacedPasses :
             j < k /\ \A i \in PlacedPasses : i < k => i <= j
  IN passes[m].slot.end

\* C27: the continuous-work gap rule of the allocator. Whenever a task is
\* placed while the work accumulated over the tasks placed so far in this run
\* is at least 90 minutes, it starts at least 15 minutes after the end of the
\* most recently placed task, and at least 30 minutes after it when the
\* accumulated work is at least 120 minutes.
C27_GapAfterContinuousWork ==
  ByHook =>
    \A k \in PlacedPasses :
      /\ WorkPlacedBefore(k) >= 90 => passes[k].slot.start - LastPlacedEnd(k) >= 15 * 60
      /\ WorkPlacedBefore(k) >= 120 => passes[k].slot.start - LastPlacedEnd(k) >= 30 * 60

\* block x is in tt, with the interval it has in x
KeptIn(tt, x) ==
  \E i \in 1..Len(tt) :
    /\ tt[i].id = x.id
    /\ tt[i].type = x.type
    /\ tt[i].startTime = x.startTime
    /\ tt[i].endTime = x.endTime

\* C28: greedy, no backtracking. Placing a task never changes or removes a
\* block already in the timetable: the timetable a pass of the allocator
\* starts from begins with the timetable of the pass before it, and each of
\* its blocks (unavailable, kept pre-scheduled, placed earlier) and each
\* placement is in the timetable generateTimetable returns, with its interval.
C28_NoBacktracking ==
  ByHook =>
    /\ \A k \in 1..Len(passes) :
         \A n \in 1..Len(passes[k].timetable) : KeptIn(timetable, passes[k].timetable[n])
    /\ \A k \in 2..Len(passes) :
         /\ Len(passes[k].timetable) >= Len(passes[k - 1].timetable)
         /\ SubSeq(passes[k].timetable, 1, Len(passes[k - 1].timetable))
              = passes[k - 1].timetable
    /\ \A k \in PlacedPasses :
         \E i \in BlocksFor(timetable, passes[k].task.id) :
           /\ timetable[i].startTime = passes[k].slot.start
           /\ timetable[i].endTime = passes[k].slot.end

\* C28: the allocator has placed two tasks, the second into a timetable that
\* held an unavailable block and the first
C28_TwoPlacements ==
  /\ ByHook
  /\ Len(passes) = 2
  /\ PlacedPasses = {1, 2}
  /\ \E n \in 1..Len(passes[1].timetable) : passes[1].timetable[n].type = "unavailable"
  /\ Len(passes[2].timetable) = Len(passes[1].timetable) + 1

\* the length penalty of the specification: 15 above 180 minutes, 10 above
\* 120 minutes up to 180, none otherwise
LengthPenalty(duration) ==
  IF duration > 180 THEN 15 ELSE IF duration > 120 THEN 10 ELSE 0

\* C29: the prioritizer orders the tasks by descending score, where score =
\* deadlineUrgency (80 / 60 / 40 / 15) + priorityWeight (40 / 25 / 10)
\* + categoryWeight (15 / 12 / 8) - lengthPenalty (15 above 180 minutes, 10
\* above 120 minutes, else 0): the allocator is handed no task before a task
\* of higher score.
C29_DescendingScore ==
  ByHook =>
    \A k \in 1..Len(passes) : \A l \in 1..Len(passes) :
      k < l =>
        ScoreOf(passes[k].task, now) - LengthPenalty(passes[k].task.duration)
          >= ScoreOf(passes[l].task, now) - LengthPenalty(passes[l].task.duration)

\* the allocator was handed the task
HandedToAllocator(taskId) == \E k \in 1..Len(passes) : passes[k].task.id = taskId

\* C30: eligibility of a task that has a scheduledTime, for a target date not
\* in the past. It is eligible for (re)placement exactly when (a) its
\* scheduled day is the target date, the target date is today and
\* scheduledTime <= now, or (b) its scheduled day is strictly before today; a
\* task validly scheduled on the target date, or scheduled on another day
\* from today on, is not eligible.
C30_ScheduledEligibility ==
  (ByHook /\ last.date >= DayOf(now)) =>
    \A i \in 1..Len(callerTasks) :
      (~callerTasks[i].completed /\ callerTasks[i].scheduledTime # Undefined) =>
        ( HandedToAllocator(callerTasks[i].id)
          <=> \/ /\ DayOf(callerTasks[i].scheduledTime) = last.date
                 /\ last.date = DayOf(now)
                 /\ callerTasks[i].scheduledTime <= now
              \/ DayOf(callerTasks[i].scheduledTime) < DayOf(now) )

\* C30: for today the caller supplied a task scheduled earlier today, which
\* was handed to the allocator, and a task scheduled yesterday, which was
\* handed to it too
C30_StaleAndCarried ==
  /\ ByHook
  /\ last.date = DayOf(now)
  /\ \E i \in 1..Len(callerTasks) :
       /\ callerTasks[i].scheduledTime # Undefined
       /\ DayOf(callerTasks[i].scheduledTime) = last.date
       /\ callerTasks[i].scheduledTime <= now
       /\ HandedToAllocator(callerTasks[i].id)
  /\ \E i \in 1..Len(callerTasks) :
       /\ callerTasks[i].scheduledTime # Undefined
       /\ DayOf(callerTasks[i].scheduledTime) < DayOf(now)
       /\ HandedToAllocator(callerTasks[i].id)

\* C31: eligibility of an incomplete task without scheduledTime, for a target
\* date not in the past. When its deadline day is before today it is eligible
\* for every target date from today on; otherwise it is eligible if and only
\* if its deadline day is on or after the target date.
C31_UnscheduledEligibility ==
  (ByHook /\ last.date >= DayOf(now)) =>
    \A i \in 1..Len(callerTasks) :
      (~callerTasks[i].completed /\ callerTasks[i].scheduledTime = Undefined) =>
        ( HandedToAllocator(callerTasks[i].id)
          <=> \/ DayOf(callerTasks[i].deadline) < DayOf(now)
              \/ DayOf(callerTasks[i].deadline) >= last.date )

\* C31: for tomorrow the caller supplied an overdue task without
\* scheduledTime, which was handed to the allocator, and a task due today,
\* which was not
C31_OverdueAndDueToday ==
  /\ ByHook
  /\ last.date = DayOf(now) + 1
  /\ \E i \in 1..Len(callerTasks) :
       /\ callerTasks[i].scheduledTime = Undefined
       /\ DayOf(callerTasks[i].deadline) < DayOf(now)
       /\ HandedToAllocator(callerTasks[i].id)
  /\ \E i \in 1..Len(callerTasks) :
       /\ callerTasks[i].scheduledTime = Undefined
       /\ DayOf(callerTasks[i].deadline) = DayOf(now)
       /\ ~HandedToAllocator(callerTasks[i].id)

\* the caller's task i has a task block at exactly its scheduledTime
AtScheduledTime(i) ==
  \E n \in BlocksFor(timetable, callerTasks[i].id) :
    /\ timetable[n].type = "task"
    /\ timetable[n].startTime = callerTasks[i].scheduledTime
    /\ timetable[n].endTime
         = callerTasks[i].scheduledTime + callerTasks[i].duration * 60

\* C32: a valid existing placement is never moved by regeneration. An
\* incomplete task whose scheduledTime falls on the target date and is not
\* stale (the date is a future date, or it is today and scheduledTime > now)
\* is in the output as a task block at exactly [scheduledTime, scheduledTime
\* + duration); a stale task (today and scheduledTime <= now) is never in the
\* output at its old scheduledTime.
C32_ValidPlacementKept ==
  ByHook =>
    \A i \in 1..Len(callerTasks) :
      ( /\ ~callerTasks[i].completed
        /\ callerTasks[i].scheduledTime # Undefined
        /\ DayOf(callerTasks[i].scheduledTime) = last.date
        /\ last.date >= DayOf(now) )
      => IF last.date = DayOf(now) /\ callerTasks[i].scheduledTime <= now
         THEN \A n \in BlocksFor(timetable, callerTasks[i].id) :
                timetable[n].startTime # callerTasks[i].scheduledTime
         ELSE AtScheduledTime(i)

\* the calendar rule for a non-recurring or a weekly definition: it applies to
\* the date
AppliesTo(block, date) ==
  IF block.recurring = "none" THEN block.startTime \div 86400 = date
  ELSE (date % 7) \in block.days /\ ~Listed(block.exceptions, date)

\* the output holds exactly one block from the definition when it applies to
\* the date, a fixed block from the definition's time of day on the date to
\* its end's time of day on the date, and none when it does not apply
YieldsByRule(block, date) ==
  /\ Cardinality(UnavailableFrom(timetable, block.id))
       = (IF AppliesTo(block, date) THEN 1 ELSE 0)
  /\ \A n \in UnavailableFrom(timetable, block.id) :
       /\ timetable[n].isFixed
       /\ timetable[n].startTime = date * 86400 + (block.startTime % 86400)
       /\ timetable[n].endTime = date * 86400 + (block.endTime % 86400)

\* C33 as stated: the calendar rule, for every date. A non-recurring block
\* yields a block in generateTimetable(date) if and only if its startTime's
\* calendar date is the date; a weekly block if and only if the date's weekday
\* is in its days and the date is not in its exceptions; each applicable
\* definition yields exactly one fixed block at its time of day on the date.
C33_CalendarRuleAnyDate ==
  ByHook =>
    \A i \in 1..Len(callerBlocks) :
      callerBlocks[i].recurring \in {"none", "weekly"} =>
        YieldsByRule(callerBlocks[i], last.date)

\* C33 as amended: the calendar rule holds for every date that is not in the
\* past.
C33_CalendarRule ==
  (ByHook /\ last.date >= DayOf(now)) =>
    \A i \in 1..Len(callerBlocks) :
      callerBlocks[i].recurring \in {"none", "weekly"} =>
        YieldsByRule(callerBlocks[i], last.date)

\* C33: a weekly block whose exceptions hold tomorrow is absent from the
\* timetable for tomorrow, its weekday
C33_WeeklySuppressed ==
  /\ ByHook
  /\ last.date = DayOf(now) + 1
  /\ \E i \in 1..Len(callerBlocks) :
       /\ callerBlocks[i].recurring = "weekly"
       /\ (last.date % 7) \in callerBlocks[i].days
       /\ Listed(callerBlocks[i].exceptions, last.date)
       /\ UnavailableFrom(timetable, callerBlocks[i].id) = {}

\* C34: the granule scan is bounded by the working-hours window. For every
\* date, every now and every task duration, one slot search creates at most
\* (dayEnd - dayStart) / 15 = 68 granules.
C34_GranulesBounded ==
  ByHook =>
    \A k \in 1..Len(passes) :
      SlotCount(passes[k].task.duration, last.date, now)
        <= ((dayEndHour - dayStartHour) * 60) \div SlotMinutes

\* C37: the accumulated continuous-work value passed to a slot search never
\* exceeds 90 minutes, so it never reaches the 120 minutes at which the
\* allocator applies its 30-minute minimum gap.
C37_ContinuousWorkCapped ==
  ByHook =>
    \A k \in 1..Len(passes) :
      /\ passes[k].continuousWorkTime <= maxContinuousWork
      /\ passes[k].continuousWorkTime < 120

\* C37: two tasks totalling more than 90 minutes placed back to back, the
\* second starting at the minute the first ends
C37_BackToBackOverNinety ==
  /\ ByHook
  /\ \E k \in PlacedPasses : \E j \in PlacedPasses :
       /\ k + 1 = j
       /\ passes[j].slot.start = passes[k].slot.end
       /\ passes[j].lastTaskEndTime = passes[k].slot.end
       /\ passes[k].task.duration + passes[j].task.duration > maxContinuousWork

\* the task blocks of a timetable that carry the task id
TaskBlocksOf(tt, taskId) ==
  {i \in 1..Len(tt) : tt[i].type = "task" /\ tt[i].taskId = taskId}

\* C36: at most one block per task. For a task list with unique ids, every
\* task id appears in at most one task block of generateTimetable's output,
\* and no task the call started from is both kept as a pre-scheduled block and
\* eligible for placement on the target date.
C36_OneBlockPerTask ==
  Generated =>
    /\ \A taskId \in 1..MaxTasks : Cardinality(TaskBlocksOf(timetable, taskId)) <= 1
    /\ \A j \in 1..Len(last.tasksBefore) :
         ~( /\ KeepsPlacement(last.tasksBefore[j], last.date, now)
            /\ NeedsRescheduling(last.tasksBefore[j], last.date, now) )
    /\ \A i \in 1..Len(callerTasks) :
         ~( /\ KeepsPlacement(callerTasks[i], last.date, now)
            /\ NeedsRescheduling(callerTasks[i], last.date, now) )

\* C36: a task whose placement of today the clock has passed is placed anew
\* and has one block, and not at its old scheduled time
C36_StaleTaskPlacedOnce ==
  /\ ByHook
  /\ last.date = DayOf(now)
  /\ \E i \in 1..Len(callerTasks) :
       /\ callerTasks[i].scheduledTime # Undefined
       /\ DayOf(callerTasks[i].scheduledTime) = last.date
       /\ callerTasks[i].scheduledTime <= now
       /\ HandedToAllocator(callerTasks[i].id)
       /\ Cardinality(TaskBlocksOf(timetable, callerTasks[i].id)) = 1

\* the tasks whose scheduledTime the last call cleared
ClearedTasks ==
  {i \in 1..Len(last.callerTasksBefore) :
     /\ last.callerTasksBefore[i].scheduledTime # Undefined
     /\ ClearedByLast(last.callerTasksBefore[i].id)}

\* how often a date occurs in a list of dates
Occurrences(dates, d) == Cardinality({k \in 1..Len(dates) : dates[k] = d})

\* C39: the rescheduledTasksCount returned by addUnavailableBlockAndReschedule
\* equals the number of distinct tasks whose scheduledTime the call cleared; a
\* task is never counted twice, even when the same date occurs more than once
\* in the lookahead list.
C39_CountsDistinctTasks ==
  last.op = "addUnavailableBlockAndReschedule" =>
    last.returned = Cardinality(ClearedTasks)

\* C39: a weekly block on the target date's day of the week, so that the
\* target date occurs twice in the lookahead list, and a task of that date
\* cleared and counted
C39_DateTwiceTaskCleared ==
  /\ last.op = "addUnavailableBlockAndReschedule"
  /\ last.block.recurring = "weekly"
  /\ GetDay(last.date) \in last.block.days
  /\ Occurrences(DatesToCheck(last.block, last.date, DayOf(now)), last.date) = 2
  /\ \E i \in ClearedTasks : DayOf(last.callerTasksBefore[i].scheduledTime) = last.date
  /\ last.returned >= 1

\* the task blocks of the timetable in order of start
TaskBlocksInOrder ==
  LET IsTask(b) == b.type = "task"
  IN SortByStart(SelectSeq(timetable, IsTask))

\* the gap, in minutes, between task block k and the next
GapAfter(tb, k) == (tb[k + 1].startTime - tb[k].endTime) \div 60

\* the continuous work accumulated when the pair (k, k + 1) is looked at: the
\* duration of task k, added to what was accumulated at the pair before unless
\* that pair got a long break or had a gap of 60 minutes or more
RECURSIVE AccumulatedWork(_, _)
AccumulatedWork(tb, k) ==
  IF k = 1 THEN tb[1].task.duration
  ELSE Bind(AccumulatedWork(tb, k - 1),
            LAMBDA before :
              tb[k].task.duration
                + (IF (before >= 90 /\ GapAfter(tb, k - 1) >= 30)
                        \/ GapAfter(tb, k - 1) >= 60
                   THEN 0 ELSE before))

\* the break the rule asks for between task block k and the next: its title
\* and its length in minutes, or "none"
BreakByRule(tb, k) ==
  LET Heavy(b) == b.task.priority = "high" \/ b.task.duration >= 90
  IN IF AccumulatedWork(tb, k) >= 90 /\ GapAfter(tb, k) >= 30
     THEN <<"Extended Break", 30>>
     ELSE IF Heavy(tb[k]) /\ Heavy(tb[k + 1]) /\ GapAfter(tb, k) >= 15
          THEN <<"Rest Break", 15>>
          ELSE IF tb[k].task.duration >= 45 /\ GapAfter(tb, k) >= 15
               THEN <<"Short Break", 15>>
               ELSE <<"none", 0>>

\* the breaks of the timetable that start where task block k ends
BreaksAfter(tb, k) ==
  {i \in 1..Len(timetable) :
     timetable[i].type = "break" /\ timetable[i].startTime = tb[k].endTime}

\* C35: break type selection. Between two consecutive task blocks the inserted
\* break is 30 minutes ('Extended Break') exactly when the continuous work
\* accumulated in the break pass is >= 90 and the gap is >= 30, and is 15
\* minutes otherwise ('Rest Break' if both tasks are intensive, else 'Short
\* Break' when the earlier task lasts >= 45 minutes); the accumulated work is
\* reset to 0 after a long break and after any gap of 60 minutes or more.
C35_BreakTypeSelection ==
  ByHook =>
    \E tb \in {TaskBlocksInOrder} :
      \A k \in 1..(Len(tb) - 1) :
        \E rule \in {BreakByRule(tb, k)} :
          IF rule[1] = "none" THEN BreaksAfter(tb, k) = {}
          ELSE /\ Cardinality(BreaksAfter(tb, k)) = 1
               /\ \A i \in BreaksAfter(tb, k) :
                    /\ timetable[i].title = rule[1]
                    /\ timetable[i].endTime - timetable[i].startTime = rule[2] * 60

\* C35: three task blocks, the second an hour or more after the first and
\* half an hour before the third; the first two make 90 minutes of work
\* between them, and the break after the second is a rest break, the hour's
\* gap having reset the accumulated work
C35_GapResetsWork ==
  /\ ByHook
  /\ \E tb \in {TaskBlocksInOrder} :
       /\ Len(tb) = 3
       /\ GapAfter(tb, 1) >= 60
       /\ GapAfter(tb, 2) >= 30
       /\ tb[1].task.duration + tb[2].task.duration >= 90
       /\ \E i \in BreaksAfter(tb, 2) : timetable[i].title = "Rest Break"

\* the task blocks of the timetable the caller held before the last call that
\* lie on another date than the call's
OtherDateBlocks ==
  {n \in 1..Len(last.timetableBefore) :
     /\ last.timetableBefore[n].type = "task"
     /\ DayOf(last.timetableBefore[n].startTime) # last.date}

\* C38 as stated: after generateTimetable(D1) has placed a task, a following
\* generateTimetable(D2) on the same scheduler with D2 different from D1 and
\* no setTasks in between returns no block for that task.
C38_NoCrossDateDuplicate ==
  last.op = "generateTimetable" =>
    \A n \in OtherDateBlocks :
      TaskBlocksOf(timetable, last.timetableBefore[n].taskId) = {}

\* C38 as amended: the same, when D1 is not before the current date at the
\* time of the second call.
C38_NoCrossDateDuplicateSameDay ==
  last.op = "generateTimetable" =>
    \A n \in OtherDateBlocks :
      DayOf(last.timetableBefore[n].startTime) >= DayOf(now) =>
        TaskBlocksOf(timetable, last.timetableBefore[n].taskId) = {}

\* C38: a task the caller had not scheduled, placed by the first call on D1,
\* today or later at the second call, and due on D2 or later, so that only the
\* scheduledTime the first call recorded keeps it out of the timetable for D2
C38_PlacedTaskLeftOut ==
  /\ last.op = "generateTimetable"
  /\ last.date >= DayOf(now)
  /\ \E n \in OtherDateBlocks :
       /\ DayOf(last.timetableBefore[n].startTime) >= DayOf(now)
       /\ \E i \in 1..Len(callerTasks) :
            /\ callerTasks[i].id = last.timetableBefore[n].taskId
            /\ callerTasks[i].scheduledTime = Undefined
            /\ DayOf(callerTasks[i].deadline) >= last.date
       /\ TaskBlocksOf(timetable, last.timetableBefore[n].taskId) = {}

=============================================================================
